---- MODULE Spec2Model ----
(***************************************************************************)
(* Loss aggregation of Networks/CDETR/conditional_detr.py: the             *)
(* SetCriterion (matching, target-count normaliser, loss terms of the      *)
(* final and of the auxiliary decoder layers), run by one or by several    *)
(* jointly training workers.                                               *)
(*                                                                         *)
(* Tensors are sequences (1-based) that hold the 0-based indices and the   *)
(* class labels of the program as values.  Point coordinates and logits    *)
(* are integers on a grid; quotients are kept as fractions [num, den].     *)
(***************************************************************************)
EXTENDS Integers, Sequences, FiniteSets, TLC

VARIABLES
    self,           \* the SetCriterion's fields (num_classes, losses, with_weights)
    dist,           \* is_dist_avail_and_initialized()
    world,          \* number of jointly training workers
    outputs,        \* per worker: the outputs argument of forward
    targets,        \* per worker: the targets argument of forward
    pc,             \* per worker: position inside forward
    indices,        \* per worker: local variable indices of forward
    num_points,     \* per worker: local variable num_points of forward
    losses,         \* per worker: local variable losses of forward (the returned dict)
    layer,          \* per worker: 0 = final layer, i + 1 = aux_outputs[i]
    li,             \* per worker: position of the loop over self.losses
    error,          \* per worker: the exception that ended forward, "" if none
    arrived,        \* workers that have entered the all_reduce collective
    matcher_calls,  \* per worker: history of the calls of self.matcher
    loss_calls,     \* per worker: history of the calls of get_loss
    reduce_calls,   \* per worker: number of all_reduce calls made
    clamp_calls,    \* per worker: number of times num_points was computed
    returned,       \* per worker: the forward calls that have ended, with what they returned
    topk_ties,      \* which of several equal scores torch.topk of this build lists first
    pool,           \* the (outputs, target_sizes) objects PostProcess.forward is called on
    pp_arg,         \* per PostProcess invocation: the object of pool it was handed
    pp_pc,          \* per PostProcess invocation: position inside forward
    pp_local,       \* per PostProcess invocation: the local variables of forward
    pp_results,     \* per PostProcess invocation: the returned list, <<>> before the return
    pp_error,       \* per PostProcess invocation: the exception that ended it, "" if none
    detr,           \* the ConditionalDETR's fields set by __init__
    m_pc,           \* position inside ConditionalDETR.forward
    m_locals,       \* the local variables of ConditionalDETR.forward that are assigned
    m_error,        \* the exception that ended ConditionalDETR.forward, "" if none
    transformer_calls,  \* number of calls of self.transformer
    dm_pc,          \* the statement dm_decoder2.forward is at, 0 when it is not running
    dm_locals       \* the local variables of dm_decoder2.forward

\* The state of the criterion, of the post-processor and of the detector
criterion_vars == <<self, dist, world, outputs, targets, pc, indices, num_points, losses,
                    layer, li, error, arrived, matcher_calls, loss_calls, reduce_calls,
                    clamp_calls, returned>>

post_vars == <<topk_ties, pool, pp_arg, pp_pc, pp_local, pp_results, pp_error>>

detr_vars == <<detr, m_pc, m_locals, m_error, transformer_calls, dm_pc, dm_locals>>

vars == <<criterion_vars, post_vars, detr_vars>>

-----------------------------------------------------------------------------
(* Bounds of the model and constants of the program *)

MaxWorkers == 2     \* workers of a distributed run
MaxB == 2           \* images of a batch
MaxTargets == 2     \* targets of an image; the generated batches have as many query slots
MaxAux == 2         \* auxiliary decoder layers
MaxSeed == 1        \* generated batches are numbered 0..MaxSeed
MaxCoord == 2       \* generated coordinates and logits lie on the grid 0..MaxCoord
NumClasses == 2     \* num_classes of build for the point datasets
MaxCalls == 3       \* forward calls of one criterion; invocations of the post-processor
TopK == 100         \* k of torch.topk in PostProcess.forward

-----------------------------------------------------------------------------
(* Arithmetic and sequence helpers *)

Abs(x) == IF x < 0 THEN -x ELSE x

Frac(n, d) == [num |-> n, den |-> d]

FracEq(a, b) == a.num * b.den = b.num * a.den

RECURSIVE SumSeq(_)
SumSeq(s) == IF s = <<>> THEN 0 ELSE Head(s) + SumSeq(Tail(s))

\* torch.cat of a list of 1-d tensors (or of row lists)
RECURSIVE Cat(_)
Cat(ss) == IF ss = <<>> THEN <<>> ELSE Head(ss) \o Cat(Tail(ss))

Range(s) == {s[k] : k \in DOMAIN s}

\* dict.update
Update(d, e) ==
    [k \in (DOMAIN d) \cup (DOMAIN e) |-> IF k \in DOMAIN e THEN e[k] ELSE d[k]]

\* f'_{i}'
Suffix(k, i) == k \o "_" \o ToString(i)

\* {k + f'_{i}': v for k, v in l_dict.items()}
Suffixed(d, i) ==
    [k2 \in {Suffix(k, i) : k \in DOMAIN d} |->
        d[CHOOSE k \in DOMAIN d : Suffix(k, i) = k2]]

\* torch.argmax over the last dimension: index (0-based) of the first maximal value
ArgMax(row) ==
    (CHOOSE c \in DOMAIN row :
        /\ \A d \in DOMAIN row : row[d] <= row[c]
        /\ \A d \in DOMAIN row : d < c => row[d] < row[c]) - 1

-----------------------------------------------------------------------------
(* Collaborators that live outside this file *)

\* util.misc.get_world_size: 1 unless torch.distributed is initialised
get_world_size == IF dist THEN world ELSE 1

\* The permutations of 0..n-1 as sequences
Perms(n) ==
    {p \in [1..n -> 0..(n - 1)] : \A a, b \in 1..n : p[a] = p[b] => a = b}

\* matcher.HungarianMatcher for one image: N matched pairs, the prediction
\* indices distinct slots, the target indices a permutation of 0..N-1.  The
\* cost it minimises is not modelled: every such assignment may be returned.
ImageMatchings(Q, N) ==
    {[src |-> s, tgt |-> t] :
        s \in {x \in [1..N -> 0..(Q - 1)] : \A a, b \in 1..N : x[a] = x[b] => a = b},
        t \in Perms(N)}

\* self.matcher(outputs, targets): one pair of index sequences per image,
\* each image matched on its own
RECURSIVE Matchings(_, _)
Matchings(out, tg) ==
    IF tg = <<>> THEN {<<>>}
    ELSE LET B == Len(tg)
             first == Matchings(out, SubSeq(tg, 1, B - 1))
             last == ImageMatchings(Len(out.pred_logits[B]), Len(tg[B].labels))
         IN  {Append(m, x) : m \in first, x \in last}

\* util.misc.accuracy(output, target)[0]: top-1 precision in percent, 0 for no target
accuracy(rows, target) ==
    IF Len(target) = 0 THEN Frac(0, 1)
    ELSE Frac(100 * Cardinality({j \in 1..Len(target) : ArgMax(rows[j]) = target[j]}),
              Len(target))

-----------------------------------------------------------------------------
(* SetCriterion: the loss terms.  Each returns [err, dict]: the exception it
   raises ("" for none) and the dictionary it returns. *)

Ok(d) == [err |-> "", dict |-> d]

Raise(e) == [err |-> e, dict |-> <<>>]

\* SetCriterion._get_src_permutation_idx
_get_src_permutation_idx(ind) ==
    [batch_idx |-> Cat([i \in 1..Len(ind) |-> [k \in 1..Len(ind[i].src) |-> i - 1]]),
     src_idx   |-> Cat([i \in 1..Len(ind) |-> ind[i].src])]

\* SetCriterion._get_tgt_permutation_idx
_get_tgt_permutation_idx(ind) ==
    [batch_idx |-> Cat([i \in 1..Len(ind) |-> [k \in 1..Len(ind[i].tgt) |-> i - 1]]),
     tgt_idx   |-> Cat([i \in 1..Len(ind) |-> ind[i].tgt])]

\* t[idx]: advanced indexing with (batch_idx, src_idx)
Gather(t, idx) ==
    [j \in 1..Len(idx.src_idx) |-> t[idx.batch_idx[j] + 1][idx.src_idx[j] + 1]]

\* t[idx] = vals: the writes in index order
RECURSIVE IndexPut(_, _, _, _)
IndexPut(t, idx, vals, j) ==
    IF j > Len(vals) THEN t
    ELSE IndexPut([t EXCEPT ![idx.batch_idx[j] + 1][idx.src_idx[j] + 1] = vals[j]],
                  idx, vals, j + 1)

\* torch.cat([t["labels"][J] for t, (_, J) in zip(targets, indices)])
target_classes_o(tg, ind) ==
    Cat([b \in 1..Len(tg) |->
            [k \in 1..Len(ind[b].tgt) |-> tg[b].labels[ind[b].tgt[k] + 1]]])

\* Mutant of target_classes: the tensor is filled with class 0, not with num_classes
target_classes_ZeroFill(out, tg, ind) ==
    IndexPut([b \in 1..Len(out.pred_logits) |->
                 [q \in 1..Len(out.pred_logits[b]) |-> 0]],
             _get_src_permutation_idx(ind), target_classes_o(tg, ind), 1)

\* target_classes of loss_labels: num_classes everywhere, the label at matched slots
target_classes(out, tg, ind) ==
    IndexPut([b \in 1..Len(out.pred_logits) |->
                 [q \in 1..Len(out.pred_logits[b]) |-> self.num_classes]],
             _get_src_permutation_idx(ind), target_classes_o(tg, ind), 1)

\* target_classes_onehot of loss_labels: scatter_ into C + 1 columns, last one dropped
target_classes_onehot(out, tg, ind) ==
    LET tc == target_classes(out, tg, ind)
        full == [b \in 1..Len(tc) |-> [q \in 1..Len(tc[b]) |->
                    [c \in 1..(Len(out.pred_logits[b][q]) + 1) |->
                        IF c - 1 = tc[b][q] THEN 1 ELSE 0]]]
    IN  [b \in 1..Len(tc) |-> [q \in 1..Len(tc[b]) |->
            SubSeq(full[b][q], 1, Len(full[b][q]) - 1)]]

\* SetCriterion.loss_labels.  sigmoid_focal_loss is kept as the record of its arguments.
loss_labels(out, tg, ind, np, log) ==
    IF "pred_logits" \notin out.keys THEN Raise("AssertionError")
    ELSE IF self.with_weights THEN Raise("UnboundLocalError")
    ELSE
        LET src_logits == out.pred_logits
            idx == _get_src_permutation_idx(ind)
            loss_ce == [fn         |-> "sigmoid_focal_loss",
                        inputs     |-> src_logits,
                        targets    |-> target_classes_onehot(out, tg, ind),
                        num_points |-> np,
                        times      |-> Len(src_logits[1])]
            acc == accuracy(Gather(src_logits, idx), target_classes_o(tg, ind))
        IN  IF log
            THEN Ok([loss_ce |-> loss_ce,
                     class_error |-> Frac(100 * acc.den - acc.num, acc.den)])
            ELSE Ok([loss_ce |-> loss_ce])

\* card_pred of loss_cardinality, for one image
card_pred(logits) ==
    Cardinality({q \in 1..Len(logits) : ArgMax(logits[q]) # Len(logits[q]) - 1})

\* SetCriterion.loss_cardinality: F.l1_loss with its default mean reduction
loss_cardinality(out, tg, ind, np) ==
    LET pred_logits == out.pred_logits
        tgt_lengths == [b \in 1..Len(tg) |-> Len(tg[b].labels)]
        card_err == Frac(SumSeq([b \in 1..Len(tg) |->
                            Abs(card_pred(pred_logits[b]) - tgt_lengths[b])]), Len(tg))
    IN  Ok([cardinality_error |-> card_err])

\* Mutant of loss_points: the k-th matched slot is compared with the image's
\* k-th target, not with the target it is matched to
loss_points_ByPosition(out, tg, ind, np) ==
    LET idx == _get_src_permutation_idx(ind)
        src_points == Gather(out.pred_points, idx)
        target_points == Cat([b \in 1..Len(tg) |->
                            [k \in 1..Len(ind[b].tgt) |-> tg[b].points[k]]])
        total == SumSeq([j \in 1..Len(src_points) |->
                    SumSeq([p \in 1..Len(src_points[j]) |->
                        Abs(src_points[j][p] - target_points[j][p])])])
    IN  Ok([loss_point |-> Frac(total * np.den, np.num)])

\* Mutant of loss_points: a batch without any matched pair is rejected
loss_points_FailsOnEmpty(out, tg, ind, np) ==
    LET idx == _get_src_permutation_idx(ind)
        src_points == Gather(out.pred_points, idx)
        target_points == Cat([b \in 1..Len(tg) |->
                            [k \in 1..Len(ind[b].tgt) |-> tg[b].points[ind[b].tgt[k] + 1]]])
        total == SumSeq([j \in 1..Len(src_points) |->
                    SumSeq([p \in 1..Len(src_points[j]) |->
                        Abs(src_points[j][p] - target_points[j][p])])])
    IN  IF Len(src_points) = 0 THEN Raise("RuntimeError")
        ELSE Ok([loss_point |-> Frac(total * np.den, np.num)])

\* SetCriterion.loss_points
loss_points(out, tg, ind, np) ==
    IF "pred_points" \notin out.keys THEN Raise("AssertionError")
    ELSE
        LET idx == _get_src_permutation_idx(ind)
            src_points == Gather(out.pred_points, idx)
            target_points == Cat([b \in 1..Len(tg) |->
                                [k \in 1..Len(ind[b].tgt) |-> tg[b].points[ind[b].tgt[k] + 1]]])
            loss_point == [j \in 1..Len(src_points) |->
                            [p \in 1..Len(src_points[j]) |->
                                Abs(src_points[j][p] - target_points[j][p])]]
            total == SumSeq([j \in 1..Len(loss_point) |-> SumSeq(loss_point[j])])
        IN  Ok([loss_point |-> Frac(total * np.den, np.num)])

\* SetCriterion.loss_masks.  The mask tensors are not modelled: both losses are
\* kept as the record of the indices and of the normaliser they are computed from.
loss_masks(out, tg, ind, np) ==
    IF "pred_masks" \notin out.keys THEN Raise("AssertionError")
    ELSE
        LET src_idx == _get_src_permutation_idx(ind)
            tgt_idx == _get_tgt_permutation_idx(ind)
        IN  Ok([loss_mask |-> [fn |-> "sigmoid_focal_loss", src |-> src_idx,
                               tgt |-> tgt_idx, num_points |-> np],
                loss_dice |-> [fn |-> "dice_loss", src |-> src_idx,
                               tgt |-> tgt_idx, num_points |-> np]])

\* The keys of loss_map in get_loss
loss_map == {"labels", "cardinality", "points", "masks"}

\* Mutant of get_loss: a name that is not in loss_map is skipped
get_loss_Unchecked(loss, out, tg, ind, np, kwargs) ==
    IF loss \notin loss_map THEN Ok(<<>>)
    ELSE IF loss = "labels"
         THEN loss_labels(out, tg, ind, np,
                          IF "log" \in DOMAIN kwargs THEN kwargs.log ELSE TRUE)
    ELSE IF loss = "cardinality" THEN loss_cardinality(out, tg, ind, np)
    ELSE IF loss = "points" THEN loss_points(out, tg, ind, np)
    ELSE loss_masks(out, tg, ind, np)

\* SetCriterion.get_loss; kwargs is <<>> or [log |-> FALSE]
get_loss(loss, out, tg, ind, np, kwargs) ==
    IF loss \notin loss_map THEN Raise("AssertionError")
    ELSE IF loss = "labels"
         THEN loss_labels(out, tg, ind, np,
                          IF "log" \in DOMAIN kwargs THEN kwargs.log ELSE TRUE)
    ELSE IF loss = "cardinality" THEN loss_cardinality(out, tg, ind, np)
    ELSE IF loss = "points" THEN loss_points(out, tg, ind, np)
    ELSE loss_masks(out, tg, ind, np)

-----------------------------------------------------------------------------
(* The inputs forward is called with *)

Grid(x) == x % (MaxCoord + 1)

\* One layer's predictions of generated batch s: B images, Q slots, two coordinates
GenLayer(s, k, B, Q) ==
    [keys        |-> {"pred_logits", "pred_points"},
     pred_logits |-> [b \in 1..B |-> [q \in 1..Q |->
                        [c \in 1..NumClasses |-> Grid(s * c + k + b + q * (c + 1))]]],
     pred_points |-> [b \in 1..B |-> [q \in 1..Q |->
                        <<Grid(s + k + b + 2 * q), Grid(s + 2 * k + q + 1)>>]]]

\* The targets of generated batch s: image b has ns[b] targets
GenTargets(s, ns) ==
    [b \in 1..Len(ns) |->
        [labels |-> [j \in 1..ns[b] |-> (s + b + j) % NumClasses],
         points |-> [j \in 1..ns[b] |-> <<Grid(s + 2 * j + b), Grid(2 * s + j)>>]]]

\* The outputs dict: the final layer's predictions, 'aux_outputs' when has_aux,
\* 'pred_masks' when has_masks
MakeOutputs(final, aux, has_aux, has_masks) ==
    [keys        |-> final.keys \cup (IF has_aux THEN {"aux_outputs"} ELSE {})
                                \cup (IF has_masks THEN {"pred_masks"} ELSE {}),
     pred_logits |-> final.pred_logits,
     pred_points |-> final.pred_points,
     aux_outputs |-> aux]

\* The shapes of 'aux_outputs': absent, or a list of 0..MaxAux layers
AuxShapes ==
    {a \in [n : 0..MaxAux, present : BOOLEAN] : a.n > 0 => a.present}

\* The generated calls: [outputs, targets] for every seed, batch size, target
\* count per image and shape of 'aux_outputs'
GenCalls(has_masks) ==
    {[outputs |-> MakeOutputs(GenLayer(s, 0, Len(ns), MaxTargets),
                              [k \in 1..a.n |-> GenLayer(s, k, Len(ns), MaxTargets)],
                              a.present, has_masks),
      targets |-> GenTargets(s, ns)] :
        s \in 0..MaxSeed,
        ns \in UNION {[1..B -> 0..MaxTargets] : B \in 1..MaxB},
        a \in AuxShapes}

\* The scenario of the design document, in tenths: one image, five slots, two
\* targets with points (0.5, 0.5, 0.2, 0.2) and (0.1, 0.1, 0.1, 0.1), labels 0 and 1;
\* three of the five slots have an arg-max other than the last logit.
ScenarioLayer(k) ==
    [keys        |-> {"pred_logits", "pred_points"},
     pred_logits |-> << <<<<2, 0>>, <<0, 2>>, <<1, 1>>, <<0, 1>>, <<2, 1>>>> >>,
     pred_points |-> << [q \in 1..5 |-> <<q + k, 2 * q, 1 + k, q>>] >>]

\* The cardinality scenario: one image, three slots, every arg-max the valid
\* label 1, against the same two targets
CardinalityLayer ==
    [keys        |-> {"pred_logits", "pred_points"},
     pred_logits |-> << <<<<0, 2>>, <<1, 2>>, <<0, 1>>>> >>,
     pred_points |-> << [q \in 1..3 |-> <<q, q, 1, 1>>] >>]

ScenarioTargets ==
    << [labels |-> <<0, 1>>, points |-> << <<5, 5, 2, 2>>, <<1, 1, 1, 1>> >>] >>

ScenarioCalls(has_masks) ==
    {[outputs |-> MakeOutputs(ScenarioLayer(0), [k \in 1..L |-> ScenarioLayer(k)],
                              L > 0, has_masks),
      targets |-> ScenarioTargets] : L \in 0..1}
    \cup {[outputs |-> MakeOutputs(CardinalityLayer, <<>>, FALSE, has_masks),
           targets |-> ScenarioTargets]}

\* The lists of loss names a criterion is built with: those of build, without
\* and with masks, and one with a name get_loss does not know
LossLists ==
    { <<"labels", "points", "cardinality">>,
      <<"labels", "points", "cardinality", "masks">>,
      <<"labels", "giou", "points">> }

\* The arguments of build that the criterion depends on
Args(masks, aux_loss, dec_layers, with_weights) ==
    [masks |-> masks, aux_loss |-> aux_loss, dec_layers |-> dec_layers,
     with_weights |-> with_weights]

\* aux_weight_dict of build after n rounds of its loop
RECURSIVE aux_weight_dict(_, _)
aux_weight_dict(weight_dict, n) ==
    IF n <= 0 THEN <<>>
    ELSE Update(aux_weight_dict(weight_dict, n - 1), Suffixed(weight_dict, n - 1))

\* weight_dict of build; a weight is kept as the name of the option it is read from
build_weight_dict(args) ==
    LET points_only == [loss_ce |-> "cls_loss_coef", loss_point |-> "point_loss_coef",
                        loss_giou |-> "giou_loss_coef"]
        weight_dict == IF args.masks
                       THEN Update(points_only, [loss_mask |-> "mask_loss_coef",
                                                 loss_dice |-> "dice_loss_coef"])
                       ELSE points_only
    IN  IF args.aux_loss
        THEN Update(weight_dict, aux_weight_dict(weight_dict, args.dec_layers - 1))
        ELSE weight_dict

\* losses of build
build_losses(args) ==
    IF args.masks THEN <<"labels", "points", "cardinality", "masks">>
    ELSE <<"labels", "points", "cardinality">>

\* SetCriterion.__init__: the fields are stored as given
SetCriterionInit(num_classes, matcher, weight_dict, focal_alpha, ls, with_weights) ==
    [num_classes |-> num_classes, matcher |-> matcher, weight_dict |-> weight_dict,
     losses |-> ls, focal_alpha |-> focal_alpha, with_weights |-> with_weights]

\* criterion of build
build_criterion(args) ==
    SetCriterionInit(NumClasses, "HungarianMatcher", build_weight_dict(args),
                     "focal_alpha", build_losses(args), args.with_weights)

Workers == 1..world

\* The state in which every worker is about to run forward(call[w].outputs, call[w].targets)
Start(call) ==
    /\ outputs = [w \in Workers |-> call[w].outputs]
    /\ targets = [w \in Workers |-> call[w].targets]
    /\ pc = [w \in Workers |-> "match"]
    /\ indices = [w \in Workers |-> <<>>]
    /\ num_points = [w \in Workers |-> Frac(0, 1)]
    /\ losses = [w \in Workers |-> <<>>]
    /\ layer = [w \in Workers |-> 0]
    /\ li = [w \in Workers |-> 1]
    /\ error = [w \in Workers |-> ""]
    /\ arrived = {}
    /\ matcher_calls = [w \in Workers |-> <<>>]
    /\ loss_calls = [w \in Workers |-> <<>>]
    /\ reduce_calls = [w \in Workers |-> 0]
    /\ clamp_calls = [w \in Workers |-> 0]
    /\ returned = [w \in Workers |-> <<>>]

\* None
None == <<>>

\* ConditionalDETR.__init__: the fields forward branches on
ConditionalDETRInit(transformer, num_classes, num_queries, aux_loss, dm_decoder, branch_merge, branch_merge_way, transformer_flag, decoding_arch) ==
    [transformer |-> transformer, num_classes |-> num_classes, num_queries |-> num_queries,
     aux_loss |-> aux_loss, dm_decoder |-> dm_decoder, branch_merge |-> branch_merge,
     branch_merge_way |-> branch_merge_way, transformer_flag |-> transformer_flag,
     decoding_arch |-> decoding_arch]

\* No invocation of the post-processor
PostIdle ==
    /\ topk_ties = "first"
    /\ pool = <<>>
    /\ pp_arg = <<>>
    /\ pp_pc = <<>>
    /\ pp_local = <<>>
    /\ pp_results = <<>>
    /\ pp_error = <<>>

\* A detector with the default options of __init__ whose forward is not running
DetrIdle ==
    /\ detr = ConditionalDETRInit([dec_layers |-> 1], NumClasses, MaxTargets, FALSE, None,
                                  FALSE, 1, "", "")
    /\ m_pc = "idle"
    /\ m_locals = <<>>
    /\ m_error = ""
    /\ transformer_calls = 0
    /\ dm_pc = 0
    /\ dm_locals = <<>>

\* One process, with or without an initialised process group of size 1; the
\* outputs carry 'pred_masks' only for a criterion that asks for the mask losses
Init ==
    /\ world = 1
    /\ dist \in BOOLEAN
    /\ \E ls \in LossLists, ww \in BOOLEAN :
            self = SetCriterionInit(NumClasses, "HungarianMatcher",
                        build_weight_dict(Args("masks" \in Range(ls), FALSE, 1, ww)),
                        "focal_alpha", ls, ww)
    /\ \E has_masks \in {h \in BOOLEAN : h => "masks" \in Range(self.losses)} :
       \E c \in GenCalls(has_masks) \cup ScenarioCalls(has_masks) :
            Start([w \in Workers |-> c])
    /\ PostIdle
    /\ DetrIdle

\* The workers of one run, each with its own batch of one image: a single
\* process without a process group, or 1..MaxWorkers processes of a distributed run
InitDist ==
    /\ world \in 1..MaxWorkers
    /\ dist \in {d \in BOOLEAN : ~d => world = 1}
    /\ self = build_criterion(Args(FALSE, FALSE, 1, FALSE))
    /\ \E L \in 0..MaxAux :
       \E ns \in [Workers -> 0..MaxTargets] :
            Start([w \in Workers |->
                    [outputs |-> MakeOutputs(GenLayer(w, 0, 1, MaxTargets),
                                             [k \in 1..L |-> GenLayer(w, k, 1, MaxTargets)],
                                             L > 0, FALSE),
                     targets |-> GenTargets(w, <<ns[w]>>)]])
    /\ PostIdle
    /\ DetrIdle

-----------------------------------------------------------------------------
(* SetCriterion.forward, one step per statement that a claim tells apart *)

\* The record of a get_loss call: the layer and the loss name, the keys of the
\* dict it is handed, the layer its indices were matched for and its normaliser
Call(w, l, what, keyset) ==
    [layer |-> l, what |-> what, keys |-> keyset,
     indices_of |-> IF matcher_calls[w] = <<>> THEN -1
                    ELSE matcher_calls[w][Len(matcher_calls[w])].layer,
     num_points |-> num_points[w]]

\* outputs_without_aux = {k: v for k, v in outputs.items() if k != 'aux_outputs'}
outputs_without_aux(out) ==
    [keys        |-> out.keys \ {"aux_outputs"},
     pred_logits |-> out.pred_logits,
     pred_points |-> out.pred_points]

\* indices = self.matcher(outputs_without_aux, targets)
MatchFinal(w) ==
    /\ pc[w] = "match"
    /\ \E m \in Matchings(outputs_without_aux(outputs[w]), targets[w]) :
            indices' = [indices EXCEPT ![w] = m]
    /\ matcher_calls' = [matcher_calls EXCEPT ![w] =
            Append(@, [layer |-> 0, arg |-> outputs_without_aux(outputs[w])])]
    /\ pc' = [pc EXCEPT ![w] = "count"]
    /\ UNCHANGED <<post_vars, detr_vars, returned,
                   self, dist, world, outputs, targets, num_points, losses, layer, li,
                   error, arrived, loss_calls, reduce_calls, clamp_calls>>

\* num_points = sum(len(t["labels"]) for t in targets), as a tensor
CountTargets(w) ==
    /\ pc[w] = "count"
    /\ num_points' = [num_points EXCEPT ![w] =
            Frac(SumSeq([b \in 1..Len(targets[w]) |-> Len(targets[w][b].labels)]), 1)]
    /\ pc' = [pc EXCEPT ![w] = IF dist THEN "all_reduce" ELSE "clamp"]
    /\ UNCHANGED <<post_vars, detr_vars, returned,
                   self, dist, world, outputs, targets, indices, losses, layer, li,
                   error, arrived, matcher_calls, loss_calls, reduce_calls, clamp_calls>>

\* torch.distributed.all_reduce(num_points): the worker enters the collective
AllReduceEnter(w) ==
    /\ pc[w] = "all_reduce"
    /\ arrived' = arrived \cup {w}
    /\ reduce_calls' = [reduce_calls EXCEPT ![w] = @ + 1]
    /\ pc' = [pc EXCEPT ![w] = "reducing"]
    /\ UNCHANGED <<post_vars, detr_vars, returned,
                   self, dist, world, outputs, targets, indices, num_points, losses,
                   layer, li, error, matcher_calls, loss_calls, clamp_calls>>

\* Mutant of AllReduceExit: the buffer keeps the worker's own count
AllReduceExit_Local(w) ==
    /\ pc[w] = "reducing"
    /\ arrived = Workers
    /\ pc' = [pc EXCEPT ![w] = "clamp"]
    /\ UNCHANGED <<post_vars, detr_vars, returned,
                   self, dist, world, outputs, targets, indices, num_points, losses,
                   layer, li, error, arrived, matcher_calls, loss_calls, reduce_calls,
                   clamp_calls>>

\* all_reduce returns once every worker has entered: the buffer holds the sum
AllReduceExit(w) ==
    /\ pc[w] = "reducing"
    /\ arrived = Workers
    /\ num_points' = [num_points EXCEPT ![w] =
            Frac(SumSeq([v \in 1..world |->
                    SumSeq([b \in 1..Len(targets[v]) |-> Len(targets[v][b].labels)])]), 1)]
    /\ pc' = [pc EXCEPT ![w] = "clamp"]
    /\ UNCHANGED <<post_vars, detr_vars, returned,
                   self, dist, world, outputs, targets, indices, losses, layer, li,
                   error, arrived, matcher_calls, loss_calls, reduce_calls, clamp_calls>>

\* Mutant of clamp_num_points: the clamp to a minimum of 1 is lost
clamp_num_points_NoClamp(n, ws) == Frac(n, ws)

\* torch.clamp(num_points / get_world_size(), min=1).item()
clamp_num_points(n, ws) == IF n < ws THEN Frac(1, 1) ELSE Frac(n, ws)

\* Mutant of Clamp: the dictionary of the previous call is filled on
Clamp_KeepsDict(w) ==
    /\ pc[w] = "clamp"
    /\ num_points' = [num_points EXCEPT ![w] = clamp_num_points(@.num, get_world_size)]
    /\ clamp_calls' = [clamp_calls EXCEPT ![w] = @ + 1]
    /\ pc' = [pc EXCEPT ![w] = "loss"]
    /\ UNCHANGED <<post_vars, detr_vars, returned, self, dist, world, outputs, targets,
                   indices, losses, layer, li, error, arrived, matcher_calls, loss_calls,
                   reduce_calls>>

\* num_points = torch.clamp(...).item(); losses = {}
Clamp(w) ==
    /\ pc[w] = "clamp"
    /\ num_points' = [num_points EXCEPT ![w] = clamp_num_points(@.num, get_world_size)]
    /\ clamp_calls' = [clamp_calls EXCEPT ![w] = @ + 1]
    /\ losses' = [losses EXCEPT ![w] = <<>>]
    /\ pc' = [pc EXCEPT ![w] = "loss"]
    /\ UNCHANGED <<post_vars, detr_vars, returned, self, dist, world, outputs, targets,
                   indices, layer, li, error, arrived, matcher_calls, loss_calls,
                   reduce_calls>>

\* Number of auxiliary layers forward loops over
NumAux(w) == IF "aux_outputs" \in outputs[w].keys THEN Len(outputs[w].aux_outputs) ELSE 0

\* Where forward goes after the loop over self.losses of layer l has ended
AfterLayer(w, l) == IF l < NumAux(w) THEN "aux_match" ELSE "done"

\* for loss in self.losses: losses.update(self.get_loss(loss, outputs, targets, indices, num_points))
LossFinal(w) ==
    /\ pc[w] = "loss"
    /\ li[w] <= Len(self.losses)
    /\ LET loss == self.losses[li[w]]
           r == get_loss(loss, outputs[w], targets[w], indices[w], num_points[w], <<>>)
       IN  /\ loss_calls' = [loss_calls EXCEPT ![w] =
                    Append(@, Call(w, 0, loss, outputs[w].keys))]
           /\ IF r.err # ""
              THEN /\ error' = [error EXCEPT ![w] = r.err]
                   /\ pc' = [pc EXCEPT ![w] = "error"]
                   /\ UNCHANGED <<losses, li, layer>>
              ELSE /\ losses' = [losses EXCEPT ![w] = Update(@, r.dict)]
                   /\ IF li[w] < Len(self.losses)
                      THEN /\ li' = [li EXCEPT ![w] = @ + 1]
                           /\ UNCHANGED <<pc, layer>>
                      ELSE /\ li' = [li EXCEPT ![w] = 1]
                           /\ layer' = [layer EXCEPT ![w] = 1]
                           /\ pc' = [pc EXCEPT ![w] = AfterLayer(w, 0)]
                   /\ UNCHANGED error
    /\ UNCHANGED <<post_vars, detr_vars, returned,
                   self, dist, world, outputs, targets, indices, num_points, arrived,
                   matcher_calls, reduce_calls, clamp_calls>>

\* The auxiliary layer forward is at
AuxOutputs(w) == outputs[w].aux_outputs[layer[w]]

\* Mutant of MatchAux: the auxiliary layer reuses the indices it finds
MatchAux_Reuse(w) ==
    /\ pc[w] = "aux_match"
    /\ pc' = [pc EXCEPT ![w] = "aux_loss"]
    /\ UNCHANGED <<post_vars, detr_vars, returned,
                   self, dist, world, outputs, targets, indices, num_points, losses,
                   layer, li, error, arrived, matcher_calls, loss_calls, reduce_calls,
                   clamp_calls>>

\* for i, aux_outputs in enumerate(outputs['aux_outputs']): indices = self.matcher(aux_outputs, targets)
MatchAux(w) ==
    /\ pc[w] = "aux_match"
    /\ \E m \in Matchings(AuxOutputs(w), targets[w]) :
            indices' = [indices EXCEPT ![w] = m]
    /\ matcher_calls' = [matcher_calls EXCEPT ![w] =
            Append(@, [layer |-> layer[w], arg |-> AuxOutputs(w)])]
    /\ pc' = [pc EXCEPT ![w] = "aux_loss"]
    /\ UNCHANGED <<post_vars, detr_vars, returned,
                   self, dist, world, outputs, targets, num_points, losses, layer, li,
                   error, arrived, loss_calls, reduce_calls, clamp_calls>>

\* Mutant of aux_kwargs: logging is left enabled for the auxiliary layers
aux_kwargs_Log(loss) == <<>>

\* kwargs of the auxiliary get_loss call
aux_kwargs(loss) == IF loss = "labels" THEN [log |-> FALSE] ELSE <<>>

\* Whether the auxiliary loop skips the loss (continue)
aux_skips(loss) == loss = "masks"

\* The key the auxiliary loop stores a loss under
aux_key(k, i) == Suffix(k, i)

\* The body of the loop over self.losses for one auxiliary layer
LossAux(w) ==
    /\ pc[w] = "aux_loss"
    /\ li[w] <= Len(self.losses)
    /\ LET loss == self.losses[li[w]]
           i == layer[w] - 1
           r == IF aux_skips(loss) THEN Ok(<<>>)
                ELSE get_loss(loss, AuxOutputs(w), targets[w], indices[w], num_points[w],
                              aux_kwargs(loss))
           l_dict == [k2 \in {aux_key(k, i) : k \in DOMAIN r.dict} |->
                        r.dict[CHOOSE k \in DOMAIN r.dict : aux_key(k, i) = k2]]
       IN  /\ loss_calls' = [loss_calls EXCEPT ![w] =
                    IF aux_skips(loss) THEN @
                    ELSE Append(@, Call(w, layer[w], loss, AuxOutputs(w).keys))]
           /\ IF r.err # ""
              THEN /\ error' = [error EXCEPT ![w] = r.err]
                   /\ pc' = [pc EXCEPT ![w] = "error"]
                   /\ UNCHANGED <<losses, li, layer>>
              ELSE /\ losses' = [losses EXCEPT ![w] = Update(@, l_dict)]
                   /\ IF li[w] < Len(self.losses)
                      THEN /\ li' = [li EXCEPT ![w] = @ + 1]
                           /\ UNCHANGED <<pc, layer>>
                      ELSE /\ li' = [li EXCEPT ![w] = 1]
                           /\ layer' = [layer EXCEPT ![w] = @ + 1]
                           /\ pc' = [pc EXCEPT ![w] = AfterLayer(w, layer[w])]
                   /\ UNCHANGED error
    /\ UNCHANGED <<post_vars, detr_vars, returned,
                   self, dist, world, outputs, targets, indices, num_points, arrived,
                   matcher_calls, reduce_calls, clamp_calls>>

Next ==
    \/ \E w \in Workers : MatchFinal(w)
    \/ \E w \in Workers : CountTargets(w)
    \/ \E w \in Workers : AllReduceEnter(w)
    \/ \E w \in Workers : AllReduceExit(w)
    \/ \E w \in Workers : Clamp(w)
    \/ \E w \in Workers : LossFinal(w)
    \/ \E w \in Workers : MatchAux(w)
    \/ \E w \in Workers : LossAux(w)

Spec == Init /\ [][Next]_vars

SpecDist == InitDist /\ [][Next]_vars

-----------------------------------------------------------------------------
(* One criterion called again and again by the training loop *)

\* The batches the training loop hands to the criterion: one image with one
\* query slot and at most one target, so that the matcher has a single
\* assignment to return; with and without one auxiliary layer
CallInputs(has_masks) ==
    {[outputs |-> MakeOutputs(GenLayer(s, 0, 1, 1), [k \in 1..L |-> GenLayer(s, k, 1, 1)],
                              L > 0, has_masks),
      targets |-> GenTargets(s, <<n>>)] :
        s \in 0..MaxSeed, n \in 0..1, L \in 0..1}

\* loss_dict = criterion(outputs, targets) of the next iteration: the caller
\* keeps the dictionary the last call returned, and forward is entered again
\* on the same criterion.  Nothing is assigned to losses before forward
\* reaches its statement losses = {}.
NextCall(w) ==
    /\ pc[w] = "done"
    /\ Len(returned[w]) + 1 < MaxCalls
    /\ returned' = [returned EXCEPT ![w] =
            Append(@, [outputs |-> outputs[w], targets |-> targets[w], dict |-> losses[w]])]
    /\ \E c \in CallInputs("masks" \in Range(self.losses)) :
        /\ outputs' = [outputs EXCEPT ![w] = c.outputs]
        /\ targets' = [targets EXCEPT ![w] = c.targets]
    /\ pc' = [pc EXCEPT ![w] = "match"]
    /\ indices' = [indices EXCEPT ![w] = <<>>]
    /\ num_points' = [num_points EXCEPT ![w] = Frac(0, 1)]
    /\ layer' = [layer EXCEPT ![w] = 0]
    /\ li' = [li EXCEPT ![w] = 1]
    /\ arrived' = arrived \ {w}
    /\ matcher_calls' = [matcher_calls EXCEPT ![w] = <<>>]
    /\ loss_calls' = [loss_calls EXCEPT ![w] = <<>>]
    /\ reduce_calls' = [reduce_calls EXCEPT ![w] = 0]
    /\ clamp_calls' = [clamp_calls EXCEPT ![w] = 0]
    /\ UNCHANGED <<post_vars, detr_vars, self, dist, world, losses, error>>

\* A criterion of build, without or with the mask losses, in a single process
\* with or without a process group, before its first call
InitCalls ==
    /\ world = 1
    /\ dist \in BOOLEAN
    /\ \E masks \in BOOLEAN : self = build_criterion(Args(masks, FALSE, 1, FALSE))
    /\ \E c \in CallInputs("masks" \in Range(self.losses)) : Start([w \in Workers |-> c])
    /\ PostIdle
    /\ DetrIdle

NextCalls ==
    \/ \E w \in Workers : MatchFinal(w)
    \/ \E w \in Workers : CountTargets(w)
    \/ \E w \in Workers : AllReduceEnter(w)
    \/ \E w \in Workers : AllReduceExit(w)
    \/ \E w \in Workers : Clamp(w)
    \/ \E w \in Workers : LossFinal(w)
    \/ \E w \in Workers : MatchAux(w)
    \/ \E w \in Workers : LossAux(w)
    \/ \E w \in Workers : NextCall(w)

SpecCalls == InitCalls /\ [][NextCalls]_vars

-----------------------------------------------------------------------------
(* PostProcess.forward.  A score is kept in thousandths, a corner coordinate
   as a fraction of denominator 2. *)

PPCalls == 1..MaxCalls

\* Tensor.sigmoid of a logit of the grid -2..2, in thousandths
sigmoid(x) == <<119, 269, 500, 731, 881>>[x + 3]

\* The numbers of query slots of the generated outputs: fewer and not fewer
\* than TopK candidates for NumClasses classes
PPQueries == {5, 50}

\* outputs of generated input s: B images, Q slots, logits on the grid -2..2
PPOutputs(s, B, Q) ==
    [pred_logits |-> [b \in 1..B |-> [q \in 1..Q |->
                        [c \in 1..NumClasses |-> ((s + b + 2 * q + 3 * c + q * c) % 5) - 2]]],
     pred_points |-> [b \in 1..B |-> [q \in 1..Q |->
                        <<Grid(s + b + q), Grid(s + 2 * q), Grid(b + q) + 1, Grid(q) + 1>>]]]

\* target_sizes of generated input s: rows x cols, a row is (height, width, ...)
PPTargetSizes(s, rows, cols) ==
    [r \in 1..rows |-> [c \in 1..cols |-> 3 + s + c * (r + 1)]]

PPInput(s, B, Q, rows, cols) ==
    [outputs |-> PPOutputs(s, B, Q), target_sizes |-> PPTargetSizes(s, rows, cols)]

\* The generated inputs: target_sizes has B or B + 1 rows and 2 or 3 columns
PPInputs ==
    UNION {{PPInput(s, B, Q, rows, cols) :
                s \in 0..MaxSeed, Q \in PPQueries, rows \in {B, B + 1}, cols \in {2, 3}} :
           B \in 1..MaxB}

\* The distinct values of a set of numbers, largest first
RECURSIVE Descending(_)
Descending(S) ==
    IF S = {} THEN <<>>
    ELSE LET m == CHOOSE x \in S : \A y \in S : y <= x
         IN  <<m>> \o Descending(S \ {m})

Reverse(s) == [k \in 1..Len(s) |-> s[Len(s) + 1 - k]]

\* The positions (0-based) at which row holds v, in the order in which
\* torch.topk of this build lists equal values
Positions(row, v) ==
    LET ascending == SelectSeq([f \in 1..Len(row) |-> f - 1], LAMBDA f : row[f + 1] = v)
    IN  IF topk_ties = "first" THEN ascending ELSE Reverse(ascending)

\* torch.topk(row, k): the k largest values, largest first, and their
\* positions; k beyond the length of the row is a RuntimeError
topk(row, k) ==
    IF k > Len(row) THEN [err |-> "RuntimeError", values |-> <<>>, indices |-> <<>>]
    ELSE LET vals == Descending(Range(row))
             order == Cat([i \in 1..Len(vals) |-> Positions(row, vals[i])])
             idx == SubSeq(order, 1, k)
         IN  [err |-> "", values |-> [j \in 1..k |-> row[idx[j] + 1]], indices |-> idx]

\* Mutant of topk_points: the slot is taken to be the remainder
topk_points_Mod(topk_indexes, C) ==
    [b \in 1..Len(topk_indexes) |->
        [j \in 1..Len(topk_indexes[b]) |-> topk_indexes[b][j] % C]]

\* topk_points = topk_indexes // out_logits.shape[2]
topk_points(topk_indexes, C) ==
    [b \in 1..Len(topk_indexes) |->
        [j \in 1..Len(topk_indexes[b]) |-> topk_indexes[b][j] \div C]]

\* labels = topk_indexes % out_logits.shape[2]
labels(topk_indexes, C) ==
    [b \in 1..Len(topk_indexes) |->
        [j \in 1..Len(topk_indexes[b]) |-> topk_indexes[b][j] % C]]

\* util.box_ops.box_cxcywh_to_xyxy of one point (cx, cy, w, h)
box_cxcywh_to_xyxy(x) ==
    <<Frac(2 * x[1] - x[3], 2), Frac(2 * x[2] - x[4], 2),
      Frac(2 * x[1] + x[3], 2), Frac(2 * x[2] + x[4], 2)>>

\* scale_fct = torch.stack([img_w, img_h, img_w, img_h], dim=1), img_h and
\* img_w the columns of target_sizes
scale_fct(target_sizes) ==
    [b \in 1..Len(target_sizes) |->
        LET img_h == target_sizes[b][1]
            img_w == target_sizes[b][2]
        IN  <<img_w, img_h, img_w, img_h>>]

\* The arguments of invocation c
PPOutputsOf(c) == pool[pp_arg[c]].outputs

PPTargetSizesOf(c) == pool[pp_arg[c]].target_sizes

\* out_logits, out_point = ...; the two assertions
PPAssert(c) ==
    /\ pp_pc[c] = "assert"
    /\ LET out_logits == PPOutputsOf(c).pred_logits
           target_sizes == PPTargetSizesOf(c)
       IN  IF Len(out_logits) # Len(target_sizes) \/ Len(target_sizes[1]) # 2
           THEN /\ pp_error' = [pp_error EXCEPT ![c] = "AssertionError"]
                /\ pp_pc' = [pp_pc EXCEPT ![c] = "error"]
           ELSE /\ pp_pc' = [pp_pc EXCEPT ![c] = "topk"]
                /\ UNCHANGED pp_error
    /\ UNCHANGED <<criterion_vars, detr_vars, topk_ties, pool, pp_arg, pp_local, pp_results>>

\* prob = out_logits.sigmoid(); topk_values, topk_indexes = torch.topk(...); scores = topk_values
PPTopk(c) ==
    /\ pp_pc[c] = "topk"
    /\ LET out_logits == PPOutputsOf(c).pred_logits
           prob == [b \in 1..Len(out_logits) |-> [q \in 1..Len(out_logits[b]) |->
                        [k \in 1..Len(out_logits[b][q]) |-> sigmoid(out_logits[b][q][k])]]]
           top == [b \in 1..Len(prob) |-> topk(Cat(prob[b]), TopK)]
       IN  IF \E b \in 1..Len(top) : top[b].err # ""
           THEN /\ pp_error' = [pp_error EXCEPT ![c] = "RuntimeError"]
                /\ pp_pc' = [pp_pc EXCEPT ![c] = "error"]
                /\ pp_local' = [pp_local EXCEPT ![c] = Update(@, [prob |-> prob])]
           ELSE /\ pp_local' = [pp_local EXCEPT ![c] = Update(@,
                        [prob         |-> prob,
                         topk_values  |-> [b \in 1..Len(top) |-> top[b].values],
                         topk_indexes |-> [b \in 1..Len(top) |-> top[b].indices],
                         scores       |-> [b \in 1..Len(top) |-> top[b].values]])]
                /\ pp_pc' = [pp_pc EXCEPT ![c] = "points"]
                /\ UNCHANGED pp_error
    /\ UNCHANGED <<criterion_vars, detr_vars, topk_ties, pool, pp_arg, pp_results>>

\* points of forward: the corner form of the selected slots' points, scaled
\* by the image's (width, height, width, height)
PPScaled(c, slots) ==
    LET out_logits == PPOutputsOf(c).pred_logits
        out_point == PPOutputsOf(c).pred_points
        corners == [b \in 1..Len(out_point) |-> [q \in 1..Len(out_point[b]) |->
                        box_cxcywh_to_xyxy(out_point[b][q])]]
        gathered == [b \in 1..Len(slots) |-> [j \in 1..Len(slots[b]) |->
                        corners[b][slots[b][j] + 1]]]
        scale == scale_fct(PPTargetSizesOf(c))
    IN  [b \in 1..Len(gathered) |-> [j \in 1..Len(gathered[b]) |->
            [i \in 1..4 |-> Frac(gathered[b][j][i].num * scale[b][i], gathered[b][j][i].den)]]]

\* Mutant of PPPoints: the scaling is done in place on the pred_points it was handed
PPPoints_InPlace(c) ==
    /\ pp_pc[c] = "points"
    /\ LET C == Len(PPOutputsOf(c).pred_logits[1][1])
           slots == topk_points(pp_local[c].topk_indexes, C)
           scale == scale_fct(PPTargetSizesOf(c))
       IN  /\ pp_local' = [pp_local EXCEPT ![c] = Update(@,
                    [topk_points |-> slots,
                     labels      |-> labels(pp_local[c].topk_indexes, C),
                     points      |-> PPScaled(c, slots)])]
           /\ pool' = [pool EXCEPT ![pp_arg[c]].outputs.pred_points =
                    [b \in 1..Len(@) |-> [q \in 1..Len(@[b]) |->
                        [i \in 1..4 |-> @[b][q][i] * scale[b][i]]]]]
    /\ pp_pc' = [pp_pc EXCEPT ![c] = "return"]
    /\ UNCHANGED <<criterion_vars, detr_vars, topk_ties, pp_arg, pp_results, pp_error>>

\* topk_points, labels, points = box_cxcywh_to_xyxy, torch.gather, points * scale_fct
PPPoints(c) ==
    /\ pp_pc[c] = "points"
    /\ LET C == Len(PPOutputsOf(c).pred_logits[1][1])
           slots == topk_points(pp_local[c].topk_indexes, C)
       IN  pp_local' = [pp_local EXCEPT ![c] = Update(@,
                    [topk_points |-> slots,
                     labels      |-> labels(pp_local[c].topk_indexes, C),
                     points      |-> PPScaled(c, slots)])]
    /\ pp_pc' = [pp_pc EXCEPT ![c] = "return"]
    /\ UNCHANGED <<criterion_vars, detr_vars, topk_ties, pool, pp_arg, pp_results, pp_error>>

\* results = [{'scores': s, 'labels': l, 'points': b} for s, l, b in zip(scores, labels, points)]
PPReturn(c) ==
    /\ pp_pc[c] = "return"
    /\ LET loc == pp_local[c]
           n == IF Len(loc.scores) <= Len(loc.labels) THEN Len(loc.scores) ELSE Len(loc.labels)
       IN  pp_results' = [pp_results EXCEPT ![c] =
                [b \in 1..(IF n <= Len(loc.points) THEN n ELSE Len(loc.points)) |->
                    [scores |-> loc.scores[b], labels |-> loc.labels[b],
                     points |-> loc.points[b]]]]
    /\ pp_pc' = [pp_pc EXCEPT ![c] = "done"]
    /\ UNCHANGED <<criterion_vars, detr_vars, topk_ties, pool, pp_arg, pp_local, pp_error>>

\* A criterion that has been built and whose forward has not been entered
CriterionIdle ==
    /\ world = 1
    /\ dist = FALSE
    /\ self = build_criterion(Args(FALSE, FALSE, 1, FALSE))
    /\ Start([w \in Workers |->
                [outputs |-> MakeOutputs(ScenarioLayer(0), <<>>, FALSE, FALSE),
                 targets |-> ScenarioTargets]])

\* MaxCalls invocations of one post-processor on two objects: the first on
\* pool[1], the others on either; pool[2] holds the same values as pool[1]
\* or those of one fixed other input; the build's tie order is either one
InitPost ==
    /\ CriterionIdle
    /\ DetrIdle
    /\ topk_ties \in {"first", "last"}
    /\ \E x \in PPInputs :
       \E y \in {x, PPInput(0, 1, 50, 1, 2)} :
            pool = <<x, y>>
    /\ pp_arg \in {a \in [PPCalls -> 1..2] : a[1] = 1}
    /\ pp_pc = [c \in PPCalls |-> "assert"]
    /\ pp_local = [c \in PPCalls |-> <<>>]
    /\ pp_results = [c \in PPCalls |-> <<>>]
    /\ pp_error = [c \in PPCalls |-> ""]

NextPost ==
    \/ \E c \in PPCalls : PPAssert(c)
    \/ \E c \in PPCalls : PPTopk(c)
    \/ \E c \in PPCalls : PPPoints(c)
    \/ \E c \in PPCalls : PPReturn(c)

SpecPost == InitPost /\ [][NextPost]_vars

-----------------------------------------------------------------------------
(* dm_decoder2.  A feature tensor is kept as its shape (channels and spatial
   side), a density map also with its values, per image, in millionths. *)

Epsilon == 1        \* the 1e-6 added to the spatial sum, in millionths

Tensor(c, s) == [channels |-> c, size |-> s]

Conv2d(i, o) == [in_channels |-> i, out_channels |-> o]

\* The attribute bindings after a list of assignments: the last one of a name holds
Bind(assignments) ==
    [name \in {a[1] : a \in Range(assignments)} |->
        assignments[CHOOSE k \in DOMAIN assignments :
                        /\ assignments[k][1] = name
                        /\ \A j \in DOMAIN assignments :
                                assignments[j][1] = name => j <= k][2]]

\* dm_decoder2.__init__: the modules in the order in which they are assigned
dm_decoder2Init(dim_feedforward, hidden_dim, hidden_dim2, hidden_dim3, hidden_dim4, hidden_dim5) ==
    LET last == <<Conv2d(hidden_dim3, hidden_dim3), Conv2d(hidden_dim3, hidden_dim)>>
    IN  Bind(<<
        <<"reg_layer", <<Conv2d(dim_feedforward, hidden_dim), Conv2d(hidden_dim, hidden_dim2)>> >>,
        <<"reglayer1", <<Conv2d(hidden_dim, hidden_dim2)>> >>,
        <<"reglayer2", <<Conv2d(hidden_dim3, hidden_dim), Conv2d(hidden_dim, hidden_dim2)>> >>,
        <<"reglayer3", <<Conv2d(hidden_dim4, hidden_dim3), Conv2d(hidden_dim3, hidden_dim),
                         Conv2d(hidden_dim, hidden_dim2)>> >>,
        <<"density_layer", <<Conv2d(128, 1)>> >>,
        <<"density_layer1", <<Conv2d(256, 1)>> >>,
        <<"reg_layer2", <<Conv2d(hidden_dim2, hidden_dim2), Conv2d(hidden_dim2, hidden_dim)>> >>,
        <<"layer1", <<Conv2d(dim_feedforward, dim_feedforward),
                      Conv2d(dim_feedforward, hidden_dim4)>> >>,
        <<"layer2", <<Conv2d(dim_feedforward, hidden_dim4), Conv2d(hidden_dim4, hidden_dim3)>> >>,
        <<"layer3", <<Conv2d(hidden_dim4, hidden_dim3), Conv2d(hidden_dim3, hidden_dim)>> >>,
        <<"layer4", <<Conv2d(hidden_dim5, dim_feedforward), Conv2d(dim_feedforward, hidden_dim4),
                      Conv2d(hidden_dim4, hidden_dim3), Conv2d(hidden_dim3, hidden_dim),
                      Conv2d(hidden_dim, hidden_dim2)>> >>,
        <<"layer5", <<Conv2d(hidden_dim3, hidden_dim), Conv2d(hidden_dim, hidden_dim2)>> >>,
        <<"layer6", <<Conv2d(dim_feedforward, hidden_dim4), Conv2d(hidden_dim4, hidden_dim3),
                      Conv2d(hidden_dim3, hidden_dim)>> >>,
        <<"layer7", last>>,
        <<"layer5", last>>,
        <<"conv_weight", <<Conv2d(hidden_dim4, 4)>> >> >>)

\* dm_decoder2() of build: the default widths
dm_decoder2Default == dm_decoder2Init(2048, 256, 128, 512, 1024, 3840)

\* The backbone's feature maps: channels as the decoder's layers expect them,
\* spatial sides as the shape comments of forward give them
BackboneFeatures ==
    [shallow_feature |-> Tensor(256, 64), medium_feature |-> Tensor(512, 32),
     deep_feature |-> Tensor(1024, 16), x |-> Tensor(2048, 16)]

\* One statement of dm_decoder2.forward
Ins(line, op, dst, src, mod, num, den) ==
    [line |-> line, op |-> op, dst |-> dst, src |-> src, mod |-> mod, num |-> num, den |-> den]

Upsample(line, dst, src, num, den) == Ins(line, "upsample", dst, <<src>>, "", num, den)

Conv(line, dst, mod, src) == Ins(line, "conv", dst, <<src>>, mod, 1, 1)

Clone(line, dst, src) == Ins(line, "clone", dst, <<src>>, "", 1, 1)

Concat(line, dst, srcs) == Ins(line, "cat", dst, srcs, "", 1, 1)

\* mu2 = F.relu(mu); mu2_sum = ...; mu2_normed = mu2 / (mu2_sum + 1e-6)
Normalise(line, raw, normed, src) == Ins(line, "normalise", <<raw, normed>>, <<src>>, "", 1, 1)

Return(line, names) == Ins(line, "return", "", names, "", 1, 1)

\* The branch decoding_arch == 'norm'
NormBranch ==
    << Upsample(268, "x", "x", 2, 1),
       Conv(269, "x", "reg_layer", "x"),
       Clone(270, "x2", "x"),
       Conv(271, "mu", "density_layer", "x"),
       Normalise(272, "mu2", "mu2_normed", "mu"),
       Upsample(277, "shallow_feature", "shallow_feature", 1, 2),
       Conv(278, "shallow", "reglayer1", "shallow_feature"),
       Clone(279, "x_shallow", "shallow"),
       Conv(280, "mu_shallow", "density_layer", "shallow"),
       Normalise(281, "mu2_shallow", "mu2_normed_shallow", "mu_shallow"),
       Conv(286, "medium", "reglayer2", "medium_feature"),
       Clone(287, "x_medium", "medium"),
       Conv(288, "mu_medium", "density_layer", "medium"),
       Normalise(289, "mu2_medium", "mu2_normed_medium", "mu_medium"),
       Upsample(294, "deep_feature", "deep_feature", 2, 1),
       Conv(295, "deep", "reglayer3", "deep_feature"),
       Clone(296, "x_deep", "deep"),
       Conv(297, "mu_deep", "density_layer", "deep"),
       Normalise(298, "mu2_deep", "mu2_normed_deep", "mu_deep"),
       Conv(302, "ret0", "reg_layer2", "x2"),
       Conv(302, "ret3", "reg_layer2", "x_shallow"),
       Conv(302, "ret6", "reg_layer2", "x_medium"),
       Conv(302, "ret9", "reg_layer2", "x_deep"),
       Return(302, <<"ret0", "mu2", "mu2_normed", "ret3", "mu2_shallow", "mu2_normed_shallow",
                     "ret6", "mu2_medium", "mu2_normed_medium",
                     "ret9", "mu2_deep", "mu2_normed_deep">>) >>

\* The branch decoding_arch == 'multi_resolution_loss'
MultiResolutionLossBranch ==
    << Conv(305, "x", "layer1", "x"),
       Concat(306, "ft", <<"x", "deep_feature">>),
       Upsample(307, "ft", "ft", 2, 1),
       Conv(308, "ft", "layer2", "ft"),
       Concat(309, "ft", <<"ft", "medium_feature">>),
       Upsample(310, "ft", "ft", 2, 1),
       Conv(311, "ft", "layer3", "ft"),
       Concat(312, "ft", <<"ft", "shallow_feature">>),
       Upsample(313, "ft", "ft", 1, 2),
       Conv(314, "ft", "layer5", "ft"),
       Clone(315, "ft_clone", "ft"),
       Conv(316, "ft1", "density_layer", "ft"),
       Normalise(317, "ft2", "ft2_normed", "ft1"),
       Conv(321, "ret0", "reg_layer2", "ft_clone"),
       Return(321, <<"ret0", "ft2", "ft2_normed">>) >>

\* The branch decoding_arch == 'feature_weighting'
FeatureWeightingBranch ==
    << Upsample(324, "x_up", "x", 4, 1),
       Conv(325, "x_up", "layer6", "x_up"),
       Upsample(326, "deep_feature_up", "deep_feature", 4, 1),
       Conv(327, "deep_feature_up", "layer3", "deep_feature_up"),
       Upsample(328, "medium_feature_up", "medium_feature", 2, 1),
       Conv(329, "medium_feature_up", "layer7", "medium_feature_up"),
       Concat(330, "ft_weighting",
              <<"x_up", "deep_feature_up", "medium_feature_up", "shallow_feature">>),
       Conv(331, "weighting", "conv_weight", "ft_weighting"),
       Ins(333, "softmax", "weighting", <<"weighting">>, "", 1, 1),
       Ins(335, "weighted_sum", "ft",
           <<"x_up", "deep_feature_up", "medium_feature_up", "shallow_feature", "weighting">>,
           "", 1, 1),
       Upsample(336, "ft", "ft", 1, 2),
       Conv(337, "ft", "reglayer1", "ft"),
       Clone(338, "ft_clone", "ft"),
       Conv(339, "ft1", "density_layer", "ft"),
       Normalise(340, "ft2", "ft2_normed", "ft1"),
       Conv(344, "ret0", "reg_layer2", "ft_clone"),
       Return(344, <<"ret0", "ft2", "ft2_normed">>) >>

Strategies == {"norm", "multi_resolution_loss", "feature_weighting"}

\* The statements forward runs for decoding_arch; none for any other value
Branch(decoding_arch) ==
    IF decoding_arch = "norm" THEN NormBranch
    ELSE IF decoding_arch = "multi_resolution_loss" THEN MultiResolutionLossBranch
    ELSE IF decoding_arch = "feature_weighting" THEN FeatureWeightingBranch
    ELSE <<>>

\* A module applied to a tensor: every convolution must be given the number
\* of channels it was constructed with
RECURSIVE ApplyConvs(_, _)
ApplyConvs(convs, t) ==
    IF convs = <<>> THEN [err |-> "", out |-> t]
    ELSE IF t.channels # Head(convs).in_channels THEN [err |-> "RuntimeError", out |-> t]
    ELSE ApplyConvs(Tail(convs), Tensor(Head(convs).out_channels, t.size))

\* A statement other than the normalisation and the return, run on the local
\* variables env of forward, decoder being self: [err, env]
Exec(decoder, ins, env) ==
    LET arg(k) == env[ins.src[k]]
        put(t) == [err |-> "", env |-> Update(env, [n \in {ins.dst} |-> t])]
        fail == [err |-> "RuntimeError", env |-> env]
    IN  IF ins.op = "upsample"
        THEN put(Tensor(arg(1).channels, (arg(1).size * ins.num) \div ins.den))
        ELSE IF ins.op = "conv"
        THEN LET r == ApplyConvs(decoder[ins.mod], arg(1))
             IN  IF r.err # "" THEN fail ELSE put(r.out)
        ELSE IF ins.op = "cat"
        THEN IF \E k \in DOMAIN ins.src : arg(k).size # arg(1).size THEN fail
             ELSE put(Tensor(SumSeq([k \in DOMAIN ins.src |-> arg(k).channels]), arg(1).size))
        ELSE IF ins.op = "weighted_sum"
        THEN LET n == Len(ins.src) - 1
             IN  IF \/ arg(n + 1).channels < n
                    \/ \E k \in 1..(n + 1) : arg(k).size # arg(1).size
                    \/ \E k \in 1..n : arg(k).channels # arg(1).channels
                 THEN fail
                 ELSE put(arg(1))
        ELSE put(arg(1))

\* The outputs of density_layer the model draws from: two images of two
\* cells each, in millionths.  After rectification: a map that is zero
\* everywhere, spatial sums of 1, 9998 and 9999 millionths, and larger sums.
MuBatches ==
    { << <<-3, -7>>, <<-1, 20000>> >>,
      << <<0, 1>>, <<4999, 5000>> >>,
      << <<4999, 4999>>, <<10000, 30000>> >> }

\* F.relu
relu(mu) == [b \in DOMAIN mu |-> [k \in DOMAIN mu[b] |-> IF mu[b][k] < 0 THEN 0 ELSE mu[b][k]]]

\* Mutant of mu2_normed: the sum is taken over the whole batch
mu2_normed_BatchSum(mu2) ==
    [b \in DOMAIN mu2 |-> [k \in DOMAIN mu2[b] |->
        Frac(mu2[b][k], SumSeq([a \in DOMAIN mu2 |-> SumSeq(mu2[a])]) + Epsilon)]]

\* mu2_sum = mu2.view([B,-1]).sum(1)...; mu2_normed = mu2 / (mu2_sum + 1e-6)
mu2_normed(mu2) ==
    [b \in DOMAIN mu2 |-> [k \in DOMAIN mu2[b] |->
        Frac(mu2[b][k], SumSeq(mu2[b]) + Epsilon)]]

-----------------------------------------------------------------------------
(* ConditionalDETR.forward *)

\* The statement dm_decoder2.forward is at
DecoderIns == Branch(detr.decoding_arch)[dm_pc]

\* Whether the local variables in names are all assigned
Assigned(names) == names \subseteq DOMAIN m_locals

\* self.input_proj = nn.Conv2d(backbone.num_channels, hidden_dim, kernel_size=1)
input_proj == <<Conv2d(BackboneFeatures.x.channels, 256)>>

\* features, pos = self.backbone(samples); the decompose() of the four feature maps
Backbone ==
    /\ m_pc = "backbone"
    /\ m_locals' = Update(m_locals,
            [shallow_feature |-> BackboneFeatures.shallow_feature,
             medium_feature  |-> BackboneFeatures.medium_feature,
             deep_feature    |-> BackboneFeatures.deep_feature,
             src             |-> BackboneFeatures.x,
             mask            |-> "mask",
             pos             |-> "pos"])
    /\ m_pc' = "upsample"
    /\ UNCHANGED <<criterion_vars, post_vars, detr, m_error, transformer_calls, dm_pc,
                   dm_locals>>

\* if self.decoding_arch == 'norm' or ...: mask_upsampled = ...; pos_upsampled = ...
UpsampleMask ==
    /\ m_pc = "upsample"
    /\ m_locals' = IF detr.decoding_arch \in Strategies
                   THEN Update(m_locals, [mask_upsampled |-> "mask_upsampled",
                                          pos_upsampled  |-> "pos_upsampled"])
                   ELSE m_locals
    /\ m_pc' = "decoder_call"
    /\ UNCHANGED <<criterion_vars, post_vars, detr, m_error, transformer_calls, dm_pc,
                   dm_locals>>

\* if self.dm_decoder is not None: out_dm = self.dm_decoder(...)  else: out_dm = None.
\* A decoding_arch that is none of the three makes dm_decoder2.forward return None.
DecoderCall ==
    /\ m_pc = "decoder_call"
    /\ IF detr.dm_decoder = None
       THEN /\ m_locals' = Update(m_locals, [out_dm |-> None])
            /\ m_pc' = "transformer"
            /\ UNCHANGED <<dm_pc, dm_locals>>
       ELSE IF Branch(detr.decoding_arch) = <<>>
       THEN /\ m_locals' = Update(m_locals, [out_dm |-> None])
            /\ m_pc' = "merge"
            /\ UNCHANGED <<dm_pc, dm_locals>>
       ELSE /\ dm_pc' = 1
            /\ dm_locals' = [shallow_feature |-> m_locals.shallow_feature,
                             medium_feature  |-> m_locals.medium_feature,
                             deep_feature    |-> m_locals.deep_feature,
                             x               |-> m_locals.src]
            /\ m_pc' = "dm_decoder"
            /\ UNCHANGED m_locals
    /\ UNCHANGED <<criterion_vars, post_vars, detr, m_error, transformer_calls>>

\* A statement of dm_decoder2.forward on feature tensors
DecoderStage ==
    /\ m_pc = "dm_decoder"
    /\ DecoderIns.op \notin {"normalise", "return"}
    /\ LET r == Exec(detr.dm_decoder, DecoderIns, dm_locals)
       IN  IF r.err # ""
           THEN /\ m_error' = r.err
                /\ m_pc' = "error"
                /\ UNCHANGED <<dm_pc, dm_locals>>
           ELSE /\ dm_locals' = r.env
                /\ dm_pc' = dm_pc + 1
                /\ UNCHANGED <<m_pc, m_error>>
    /\ UNCHANGED <<criterion_vars, post_vars, detr, m_locals, transformer_calls>>

\* The rectified and the normalised density map of an output mu of density_layer
DecoderNormalise ==
    /\ m_pc = "dm_decoder"
    /\ DecoderIns.op = "normalise"
    /\ \E mu \in MuBatches :
        LET shape == dm_locals[DecoderIns.src[1]]
            mu2 == relu(mu)
        IN  dm_locals' = Update(dm_locals,
                [n \in Range(DecoderIns.dst) |->
                    [channels |-> shape.channels, size |-> shape.size,
                     values |-> IF n = DecoderIns.dst[1] THEN mu2 ELSE mu2_normed(mu2)]])
    /\ dm_pc' = dm_pc + 1
    /\ UNCHANGED <<criterion_vars, post_vars, detr, m_pc, m_locals, m_error,
                   transformer_calls>>

\* The return of dm_decoder2.forward: out_dm holds the returned tensors
DecoderReturn ==
    /\ m_pc = "dm_decoder"
    /\ DecoderIns.op = "return"
    /\ m_locals' = Update(m_locals,
            [out_dm |-> [k \in DOMAIN DecoderIns.src |-> dm_locals[DecoderIns.src[k]]]])
    /\ m_pc' = "merge"
    /\ dm_pc' = 0
    /\ dm_locals' = <<>>
    /\ UNCHANGED <<criterion_vars, post_vars, detr, m_error, transformer_calls>>

\* if self.branch_merge: if self.branch_merge_way == 2: ...
Merge ==
    /\ m_pc = "merge"
    /\ IF detr.branch_merge /\ detr.branch_merge_way = 2 /\ detr.decoding_arch = "norm"
       THEN LET out_dm == m_locals.out_dm
                src1 == ApplyConvs(input_proj, m_locals.src)
                src2 == Tensor(src1.out.channels, src1.out.size * 2)
                terms == <<src2, Tensor(out_dm[1].channels, out_dm[1].size),
                           Tensor(out_dm[4].channels, out_dm[4].size),
                           Tensor(out_dm[7].channels, out_dm[7].size),
                           Tensor(out_dm[10].channels, out_dm[10].size)>>
            IN  IF src1.err # "" \/ \E k \in DOMAIN terms : terms[k] # src2
                THEN /\ m_error' = "RuntimeError"
                     /\ m_pc' = "error"
                     /\ UNCHANGED m_locals
                ELSE /\ m_locals' = Update(m_locals,
                            [out_density |-> out_dm[1], out_density1 |-> out_dm[4],
                             out_density2 |-> out_dm[7], out_density3 |-> out_dm[10],
                             src1 |-> src1.out, src2 |-> src2, src |-> src2])
                     /\ m_pc' = "transformer"
                     /\ UNCHANGED m_error
       ELSE IF /\ detr.branch_merge /\ detr.branch_merge_way = 2
               /\ detr.decoding_arch \in {"multi_resolution_loss", "feature_weighting"}
       THEN /\ m_locals' = Update(m_locals, [out_density |-> m_locals.out_dm[1],
                                             src |-> m_locals.out_dm[1]])
            /\ m_pc' = "transformer"
            /\ UNCHANGED m_error
       ELSE /\ m_pc' = "transformer"
            /\ UNCHANGED <<m_locals, m_error>>
    /\ UNCHANGED <<criterion_vars, post_vars, detr, transformer_calls, dm_pc, dm_locals>>

\* The flags for which forward calls the transformer on the merged feature
MergeFlags == {"merge", "merge2", "merge3"}

\* Which call of self.transformer forward makes: "merged" (line 138), "plain"
\* (lines 142 and 144) or "none"
TransformerBranch ==
    IF detr.dm_decoder # None
    THEN IF detr.branch_merge /\ detr.branch_merge_way = 2
         THEN IF detr.transformer_flag \in MergeFlags THEN "merged" ELSE "none"
         ELSE IF ~detr.branch_merge THEN "plain" ELSE "none"
    ELSE "plain"

\* The local variables the call of self.transformer reads
TransformerReads ==
    IF TransformerBranch = "merged"
    THEN {"src", "mask_upsampled", "pos_upsampled", "out_density"}
    ELSE IF TransformerBranch = "plain" THEN {"src", "mask", "pos"}
    ELSE {}

\* assert mask is not None; hs, reference = self.transformer(...) on the
\* branch the options select.  hs has one entry per decoder layer.
Transformer ==
    /\ m_pc = "transformer"
    /\ IF TransformerBranch = "none"
       THEN /\ m_pc' = "heads"
            /\ UNCHANGED <<m_locals, m_error, transformer_calls>>
       ELSE IF ~Assigned(TransformerReads)
       THEN /\ m_error' = "UnboundLocalError"
            /\ m_pc' = "error"
            /\ UNCHANGED <<m_locals, transformer_calls>>
       ELSE IF TransformerBranch = "plain" /\ ApplyConvs(input_proj, m_locals.src).err # ""
       THEN /\ m_error' = "RuntimeError"
            /\ m_pc' = "error"
            /\ UNCHANGED <<m_locals, transformer_calls>>
       ELSE /\ transformer_calls' = transformer_calls + 1
            /\ m_locals' = Update(m_locals,
                    [hs        |-> [l \in 1..detr.transformer.dec_layers |-> l],
                     reference |-> "reference"])
            /\ m_pc' = "heads"
            /\ UNCHANGED m_error
    /\ UNCHANGED <<criterion_vars, post_vars, detr, dm_pc, dm_locals>>

\* Mutant of _set_aux_loss: the last decoder layer is listed as well
_set_aux_loss_All(outputs_class, outputs_coord) ==
    [l \in 1..(IF Len(outputs_class) <= Len(outputs_coord)
               THEN Len(outputs_class) ELSE Len(outputs_coord)) |->
        [keys        |-> {"pred_logits", "pred_points"},
         pred_logits |-> outputs_class[l],
         pred_points |-> outputs_coord[l]]]

\* _set_aux_loss: one dict per decoder layer but the last, in layer order
_set_aux_loss(outputs_class, outputs_coord) ==
    [l \in 1..(IF Len(outputs_class) <= Len(outputs_coord)
               THEN Len(outputs_class) - 1 ELSE Len(outputs_coord) - 1) |->
        [keys        |-> {"pred_logits", "pred_points"},
         pred_logits |-> outputs_class[l],
         pred_points |-> outputs_coord[l]]]

\* The predictions of the class head and of the point head for every layer of hs
outputs_class(samples, hs) ==
    [l \in DOMAIN hs |->
        GenLayer(samples.seed, hs[l], samples.batch_size, detr.num_queries).pred_logits]

outputs_coord(samples, hs) ==
    [l \in DOMAIN hs |->
        GenLayer(samples.seed, hs[l], samples.batch_size, detr.num_queries).pred_points]

\* reference_before_sigmoid = inverse_sigmoid(reference); the heads on every
\* layer of hs; out, with 'aux_outputs' if self.aux_loss
Heads ==
    /\ m_pc = "heads"
    /\ IF ~Assigned({"reference", "hs"})
       THEN /\ m_error' = "UnboundLocalError"
            /\ m_pc' = "error"
            /\ UNCHANGED m_locals
       ELSE LET class == outputs_class(m_locals.samples, m_locals.hs)
                coord == outputs_coord(m_locals.samples, m_locals.hs)
                last == [keys        |-> {"pred_logits", "pred_points"},
                         pred_logits |-> class[Len(class)],
                         pred_points |-> coord[Len(coord)]]
            IN  /\ m_locals' = Update(m_locals,
                        [outputs_class |-> class,
                         outputs_coord |-> coord,
                         out |-> MakeOutputs(last,
                                    IF detr.aux_loss THEN _set_aux_loss(class, coord) ELSE <<>>,
                                    detr.aux_loss, FALSE)])
                /\ m_pc' = "return"
                /\ UNCHANGED m_error
    /\ UNCHANGED <<criterion_vars, post_vars, detr, transformer_calls, dm_pc, dm_locals>>

\* if out_dm is None: return out  else: return [out, out_dm]
ReturnOut ==
    /\ m_pc = "return"
    /\ m_locals' = Update(m_locals,
            [returned |-> IF m_locals.out_dm = None THEN m_locals.out
                          ELSE <<m_locals.out, m_locals.out_dm>>])
    /\ m_pc' = "done"
    /\ UNCHANGED <<criterion_vars, post_vars, detr, m_error, transformer_calls, dm_pc,
                   dm_locals>>

\* The values of transformer_flag and of decoding_arch the model draws from
Flags == {"", "merge", "merge3"}

Archs == {""} \cup Strategies

\* forward is entered with a batch of images
DetrStart(samples) ==
    /\ m_pc = "backbone"
    /\ m_locals = [samples |-> samples]
    /\ m_error = ""
    /\ transformer_calls = 0
    /\ dm_pc = 0
    /\ dm_locals = <<>>

\* Every combination of the options of ConditionalDETR.__init__, with or
\* without a density decoder, on a transformer of 1..MaxAux + 1 decoder layers
InitDetr ==
    /\ CriterionIdle
    /\ PostIdle
    /\ \E D \in 1..(MaxAux + 1), aux_loss \in BOOLEAN, branch_merge \in BOOLEAN,
          dm \in {None, dm_decoder2Default}, way \in {1, 2}, flag \in Flags, arch \in Archs :
            detr = ConditionalDETRInit([dec_layers |-> D], NumClasses, MaxTargets, aux_loss,
                                       dm, branch_merge, way, flag, arch)
    /\ DetrStart([seed |-> 0, batch_size |-> 1])

NextDetr ==
    \/ Backbone
    \/ UpsampleMask
    \/ DecoderCall
    \/ DecoderStage
    \/ DecoderNormalise
    \/ DecoderReturn
    \/ Merge
    \/ Transformer
    \/ Heads
    \/ ReturnOut

SpecDetr == InitDetr /\ [][NextDetr]_vars

-----------------------------------------------------------------------------
(* build, and one iteration of the training loop on what it returns *)

\* The options of build the detector depends on
Options(dm_count, branch_merge, branch_merge_way, transformer_flag, decoding_arch) ==
    [dm_count |-> dm_count, branch_merge |-> branch_merge,
     branch_merge_way |-> branch_merge_way, transformer_flag |-> transformer_flag,
     decoding_arch |-> decoding_arch]

\* The options the training runs draw from.  With dm_count, build assigns
\* density_decoder only for branch_merge_way 2.
TrainOptions ==
    {o \in {Options(dm, bm, way, flag, arch) :
                dm \in BOOLEAN, bm \in BOOLEAN, way \in {1, 2}, flag \in {"", "merge"},
                arch \in Archs} :
        o.dm_count => o.branch_merge_way = 2}

\* model of build: the transformer has args.dec_layers decoder layers
build_model(args, o) ==
    ConditionalDETRInit([dec_layers |-> args.dec_layers], NumClasses, MaxTargets,
                        args.aux_loss, IF o.dm_count THEN dm_decoder2Default ELSE None,
                        o.branch_merge, o.branch_merge_way, o.transformer_flag,
                        o.decoding_arch)

\* outputs = model(samples); loss_dict = criterion(outputs, targets): the
\* criterion is handed the prediction dict the detector returned, alone or as
\* the first element of [out, out_dm], and the targets of the batch
Train(w) ==
    /\ m_pc = "done"
    /\ pc[w] = "idle"
    /\ outputs' = [outputs EXCEPT ![w] =
            IF m_locals.out_dm = None THEN m_locals.returned ELSE m_locals.returned[1]]
    /\ \E n \in 0..MaxTargets :
            targets' = [targets EXCEPT ![w] = GenTargets(m_locals.samples.seed, <<n>>)]
    /\ pc' = [pc EXCEPT ![w] = "match"]
    /\ UNCHANGED <<post_vars, detr_vars, returned, self, dist, world, indices, num_points,
                   losses, layer, li, error, arrived, matcher_calls, loss_calls,
                   reduce_calls, clamp_calls>>

\* The model and the criterion of one build, without masks, in a single
\* process with or without a process group: the detector is about to run
\* forward on a batch of one image, the criterion waits for its outputs
InitTrain ==
    /\ world = 1
    /\ dist \in BOOLEAN
    /\ \E D \in 1..(MaxAux + 1), aux_loss \in BOOLEAN, ww \in BOOLEAN, o \in TrainOptions :
        /\ self = build_criterion(Args(FALSE, aux_loss, D, ww))
        /\ detr = build_model(Args(FALSE, aux_loss, D, ww), o)
    /\ DetrStart([seed |-> 0, batch_size |-> 1])
    /\ outputs = [w \in Workers |-> <<>>]
    /\ targets = [w \in Workers |-> <<>>]
    /\ pc = [w \in Workers |-> "idle"]
    /\ indices = [w \in Workers |-> <<>>]
    /\ num_points = [w \in Workers |-> Frac(0, 1)]
    /\ losses = [w \in Workers |-> <<>>]
    /\ layer = [w \in Workers |-> 0]
    /\ li = [w \in Workers |-> 1]
    /\ error = [w \in Workers |-> ""]
    /\ arrived = {}
    /\ matcher_calls = [w \in Workers |-> <<>>]
    /\ loss_calls = [w \in Workers |-> <<>>]
    /\ reduce_calls = [w \in Workers |-> 0]
    /\ clamp_calls = [w \in Workers |-> 0]
    /\ returned = [w \in Workers |-> <<>>]
    /\ PostIdle

NextTrain ==
    \/ Backbone
    \/ UpsampleMask
    \/ DecoderCall
    \/ DecoderStage
    \/ DecoderNormalise
    \/ DecoderReturn
    \/ Merge
    \/ Transformer
    \/ Heads
    \/ ReturnOut
    \/ \E w \in Workers : Train(w)
    \/ \E w \in Workers : MatchFinal(w)
    \/ \E w \in Workers : CountTargets(w)
    \/ \E w \in Workers : AllReduceEnter(w)
    \/ \E w \in Workers : AllReduceExit(w)
    \/ \E w \in Workers : Clamp(w)
    \/ \E w \in Workers : LossFinal(w)
    \/ \E w \in Workers : MatchAux(w)
    \/ \E w \in Workers : LossAux(w)

SpecTrain == InitTrain /\ [][NextTrain]_vars

-----------------------------------------------------------------------------
(* Vocabulary of the properties *)

\* forward has computed its normaliser
PastClamp(w) == pc[w] \in {"loss", "aux_match", "aux_loss", "done", "error"}

\* Number of targets of worker w's batch, and of all workers' batches
LocalTargets(w) == SumSeq([b \in 1..Len(targets[w]) |-> Len(targets[w][b].labels)])

GlobalTargets == SumSeq([v \in 1..world |-> LocalTargets(v)])

\* Decimal digits, for the keys name_i
Digit(i) == <<"0", "1", "2", "3", "4", "5", "6", "7", "8", "9">>[i + 1]

\* The loss lists build configures: labels, points, cardinality, optionally masks
BuildLossLists ==
    { <<"labels", "points", "cardinality">>,
      <<"labels", "points", "cardinality", "masks">> }

\* Whether self.losses holds a name get_loss does not know, and the first such position
HasUnregistered == \E k \in 1..Len(self.losses) : self.losses[k] \notin loss_map

FirstUnregistered ==
    CHOOSE k \in 1..Len(self.losses) :
        /\ self.losses[k] \notin loss_map
        /\ \A j \in 1..(k - 1) : self.losses[j] \in loss_map

\* The layer the current indices were matched for
LastMatched(w) == matcher_calls[w][Len(matcher_calls[w])].layer

\* The predictions of layer l: 0 the final layer, i + 1 the entry i of aux_outputs
LayerDict(w, l) == IF l = 0 THEN outputs[w] ELSE outputs[w].aux_outputs[l]

\* The key a loss of layer l is returned under
KeyOf(name, l) == IF l = 0 THEN name ELSE name \o "_" \o Digit(l - 1)

\* L1 distance of the k-th matched pair of image b, and the sums over the
\* pairs of an image and of the batch
PairL1(w, l, b, k) ==
    LET pred == LayerDict(w, l).pred_points[b][indices[w][b].src[k] + 1]
        tgt == targets[w][b].points[indices[w][b].tgt[k] + 1]
    IN  SumSeq([p \in 1..Len(pred) |-> Abs(pred[p] - tgt[p])])

ImageL1(w, l, b) == SumSeq([k \in 1..Len(indices[w][b].src) |-> PairL1(w, l, b, k)])

MatchedL1(w, l) == SumSeq([b \in 1..Len(targets[w]) |-> ImageL1(w, l, b)])

\* Slot q (0-based) of image b is matched to a target of label c
MatchedTo(w, b, q, c) ==
    \E k \in 1..Len(indices[w][b].src) :
        /\ indices[w][b].src[k] = q
        /\ targets[w][b].labels[indices[w][b].tgt[k] + 1] = c

\* The keys the loss terms named in S return for the final layer
KeysOfNames(S) ==
    UNION {IF n = "labels" THEN {"loss_ce", "class_error"}
           ELSE IF n = "points" THEN {"loss_point"}
           ELSE IF n = "cardinality" THEN {"cardinality_error"}
           ELSE IF n = "masks" THEN {"loss_mask", "loss_dice"}
           ELSE {} : n \in S}

\* The keys the requested losses put into the returned dictionary for the final layer
RequestedKeys == KeysOfNames(Range(self.losses))

FinalKeys ==
    {"loss_ce", "class_error", "loss_point", "cardinality_error"}
        \cup (IF "masks" \in Range(self.losses) THEN {"loss_mask", "loss_dice"} ELSE {})

AuxKeys(i) ==
    {"loss_ce_" \o Digit(i), "loss_point_" \o Digit(i), "cardinality_error_" \o Digit(i)}

-----------------------------------------------------------------------------
(* The claims *)

\* C1: one forward call with L auxiliary outputs invokes the matcher exactly
\* L + 1 times: first on the final-layer outputs without 'aux_outputs', then on
\* each auxiliary layer's own predictions in list order; every loss term of a
\* layer is computed with the assignment matched for that same layer.
C1_MatcherOncePerLayer ==
    \A w \in Workers :
        /\ Len(matcher_calls[w]) <= NumAux(w) + 1
        /\ pc[w] = "done" => Len(matcher_calls[w]) = NumAux(w) + 1
        /\ \A k \in 1..Len(matcher_calls[w]) :
            LET c == matcher_calls[w][k]
            IN  /\ c.layer = k - 1
                /\ "aux_outputs" \notin c.arg.keys
                /\ k = 1 => /\ c.arg.keys = outputs[w].keys \ {"aux_outputs"}
                            /\ c.arg.pred_logits = outputs[w].pred_logits
                            /\ c.arg.pred_points = outputs[w].pred_points
                /\ k > 1 => c.arg = outputs[w].aux_outputs[k - 1]
        /\ \A j \in 1..Len(loss_calls[w]) :
            loss_calls[w][j].indices_of = loss_calls[w][j].layer

C1_Witness ==
    \E w \in Workers :
        /\ pc[w] = "done"
        /\ NumAux(w) = 2
        /\ Len(matcher_calls[w]) = 3
        /\ \E j \in 1..Len(loss_calls[w]) : loss_calls[w][j].layer = 2

\* C2: with the losses of build and L auxiliary layers the returned dictionary
\* has exactly the keys loss_ce, class_error, loss_point, cardinality_error
\* (plus loss_mask and loss_dice when masks is requested) and loss_ce_i,
\* loss_point_i, cardinality_error_i for 0 <= i < L: no class_error_i,
\* loss_mask_i or loss_dice_i.
C2_KeySet ==
    \A w \in Workers :
        (pc[w] = "done" /\ self.losses \in BuildLossLists) =>
            DOMAIN losses[w] = FinalKeys \cup UNION {AuxKeys(i) : i \in 0..(NumAux(w) - 1)}

C2_Witness ==
    \E w \in Workers :
        /\ pc[w] = "done"
        /\ "masks" \in Range(self.losses)
        /\ NumAux(w) = 2
        /\ {"loss_dice", "loss_ce_0", "cardinality_error_1"} \subseteq DOMAIN losses[w]

\* C3: num_points is computed exactly once per forward call, equals
\* max(1, T / W) for T the targets of the batch (of all workers' batches when
\* distributed) and W the world size, is never below 1, and every loss-term
\* call of the final and of the auxiliary layers is handed that same value.
C3_Normalizer ==
    \A w \in Workers :
        /\ clamp_calls[w] <= 1
        /\ PastClamp(w) =>
            LET T == IF dist THEN GlobalTargets ELSE LocalTargets(w)
                W == IF dist THEN world ELSE 1
            IN  /\ clamp_calls[w] = 1
                /\ num_points[w].den > 0
                /\ num_points[w].num >= num_points[w].den
                /\ FracEq(num_points[w], IF T >= W THEN Frac(T, W) ELSE Frac(1, 1))
        /\ \A j \in 1..Len(loss_calls[w]) : loss_calls[w][j].num_points = num_points[w]

C3_Witness ==
    \E w \in Workers :
        /\ pc[w] = "done"
        /\ world = 2
        /\ GlobalTargets = 0
        /\ NumAux(w) >= 1
        /\ num_points[w] = Frac(1, 1)
        /\ Len(loss_calls[w]) >= 6

\* C4: in a joint run every worker's forward performs the all_reduce of the
\* target count exactly once, whatever the number of auxiliary layers and of
\* loss terms; the reduction has completed before any loss term of the call is
\* computed, and afterwards all workers hold the same normaliser.
C4_SingleReduction ==
    (dist /\ world >= 2) =>
        \A w \in Workers :
            /\ reduce_calls[w] <= 1
            /\ (pc[w] \in {"reducing", "clamp"} \/ PastClamp(w)) => reduce_calls[w] = 1
            /\ loss_calls[w] # <<>> =>
                    /\ arrived = Workers
                    /\ pc[w] \notin {"all_reduce", "reducing"}
            /\ \A v \in Workers :
                    (PastClamp(w) /\ PastClamp(v)) => num_points[w] = num_points[v]

C4_Witness ==
    /\ dist
    /\ world >= 2
    /\ \A w \in Workers : pc[w] = "done" /\ reduce_calls[w] = 1 /\ NumAux(w) = 2
    /\ LocalTargets(1) # LocalTargets(2)
    /\ num_points[1] = Frac(3, 2)

\* C5 as stated: a loss name that get_loss does not know is rejected when the
\* criterion is set up, before any forward call has run the matcher or computed
\* a loss term.  (Refuted: __init__ stores the list unchecked.)
C5_Original ==
    HasUnregistered =>
        \A w \in Workers : matcher_calls[w] = <<>> /\ loss_calls[w] = <<>>

\* C5, amended: a criterion with such a name is constructed, and its forward
\* call never returns a dictionary.  Unless a loss term listed before the name
\* raises first, the call ends with the assertion of get_loss when the loop over
\* self.losses of the final layer reaches the name: after the matcher has run on
\* the final layer, after the normaliser has been computed and after the loss
\* terms listed before it have been computed.
C5_RejectedInGetLoss ==
    HasUnregistered =>
        \A w \in Workers :
            /\ pc[w] # "done"
            /\ pc[w] = "error" =>
                /\ Len(matcher_calls[w]) = 1
                /\ clamp_calls[w] = 1
                /\ \A j \in 1..Len(loss_calls[w]) :
                        loss_calls[w][j].layer = 0 /\ loss_calls[w][j].what = self.losses[j]
                /\ \/ /\ Len(loss_calls[w]) < FirstUnregistered
                      /\ error[w] # ""
                   \/ /\ Len(loss_calls[w]) = FirstUnregistered
                      /\ error[w] = "AssertionError"
                      /\ DOMAIN losses[w] =
                            KeysOfNames({self.losses[j] : j \in 1..(FirstUnregistered - 1)})

C5_Witness ==
    \E w \in Workers :
        /\ HasUnregistered
        /\ pc[w] = "error"
        /\ error[w] = "AssertionError"
        /\ Len(matcher_calls[w]) = 1
        /\ "loss_ce" \in DOMAIN losses[w]

\* C6: loss_point of a layer is the sum, over the matched pairs of all images,
\* of the element-wise absolute differences between the point of the matched
\* slot and the point of its matched target, divided by num_points; the k-th
\* matched prediction index is paired with the k-th matched target index of the
\* same image and unmatched slots contribute nothing.  One image with two targets
\* on a single worker: exactly two pairs contribute and the sum is divided by 2.
C6_LossPoint ==
    \A w \in Workers :
        (matcher_calls[w] # <<>> /\ KeyOf("loss_point", LastMatched(w)) \in DOMAIN losses[w]) =>
            LET l == LastMatched(w)
                value == losses[w][KeyOf("loss_point", l)]
            IN  /\ value.den # 0
                /\ FracEq(value, Frac(MatchedL1(w, l) * num_points[w].den, num_points[w].num))
                /\ (world = 1 /\ Len(targets[w]) = 1 /\ Len(targets[w][1].labels) = 2) =>
                        /\ Len(indices[w][1].src) = 2
                        /\ FracEq(value, Frac(MatchedL1(w, l), 2))

C6_Witness ==
    \E w \in Workers :
        /\ Len(outputs[w].pred_points[1]) = 5
        /\ matcher_calls[w] # <<>>
        /\ LastMatched(w) = 1
        /\ "loss_point_0" \in DOMAIN losses[w]
        /\ indices[w][1] = [src |-> <<4, 1>>, tgt |-> <<1, 0>>]
        /\ losses[w]["loss_point_0"].num > 0

\* C7: the classification target of loss_labels has shape B x Q x C and holds a 1
\* at (b, q, c) exactly when slot q of image b is matched to a target of label
\* c, 0 elsewhere: an unmatched slot has an all-zero row, and the number of rows
\* of image b that hold a 1 is N_b.
C7_ClassTarget ==
    \A w \in Workers :
        (matcher_calls[w] # <<>> /\ KeyOf("loss_ce", LastMatched(w)) \in DOMAIN losses[w]) =>
            LET l == LastMatched(w)
                T == losses[w][KeyOf("loss_ce", l)].targets
                logits == LayerDict(w, l).pred_logits
            IN  /\ Len(T) = Len(logits)
                /\ \A b \in 1..Len(T) :
                    /\ Len(T[b]) = Len(logits[b])
                    /\ \A q \in 1..Len(T[b]) :
                        /\ Len(T[b][q]) = NumClasses
                        /\ \A c \in 1..NumClasses :
                            T[b][q][c] = IF MatchedTo(w, b, q - 1, c - 1) THEN 1 ELSE 0
                    /\ Cardinality({q \in 1..Len(T[b]) : \E c \in 1..NumClasses : T[b][q][c] = 1})
                            = Len(targets[w][b].labels)

C7_Witness ==
    \E w \in Workers :
        /\ matcher_calls[w] # <<>>
        /\ LastMatched(w) = 2
        /\ "loss_ce_1" \in DOMAIN losses[w]
        /\ Len(targets[w]) = 2
        /\ Len(targets[w][1].labels) = 1
        /\ Len(targets[w][2].labels) = 2
        /\ losses[w]["loss_ce_1"].targets[1] = << <<0, 0>>, <<0, 1>> >>

\* C8 as stated: the cardinality diagnostic counts every slot whose arg-max is
\* one of the target classes 0..C-1, the class C-1 included; only the no-object
\* class, index C, is left out.  (Refuted by the code: card_pred leaves out the
\* slots whose arg-max is C-1.)
C8_Original ==
    \A w \in Workers :
        "cardinality_error" \in DOMAIN losses[w] =>
            FracEq(losses[w].cardinality_error,
                   Frac(SumSeq([b \in 1..Len(targets[w]) |->
                            Abs(Cardinality({q \in 1..Len(outputs[w].pred_logits[b]) :
                                    ArgMax(outputs[w].pred_logits[b][q]) \in 0..(NumClasses - 1)})
                                - Len(targets[w][b].labels))]),
                        Len(targets[w])))

\* C9 as stated: cardinality_error of a layer is the absolute difference between
\* the number of slots whose arg-max is not the no-object class (index C) and
\* the number of targets of the image, averaged over the images; three such
\* slots against two targets in a single image give exactly 1.  (Refuted by the
\* code because of the count C8 is about.)
C9_Original ==
    \A w \in Workers :
        \A l \in 0..NumAux(w) :
            KeyOf("cardinality_error", l) \in DOMAIN losses[w] =>
                LET value == losses[w][KeyOf("cardinality_error", l)]
                    logits == LayerDict(w, l).pred_logits
                    objects(b) == Cardinality({q \in 1..Len(logits[b]) :
                                        ArgMax(logits[b][q]) # NumClasses})
                IN  /\ FracEq(value,
                              Frac(SumSeq([b \in 1..Len(logits) |->
                                        Abs(objects(b) - Len(targets[w][b].labels))]),
                                   Len(logits)))
                    /\ (Len(logits) = 1 /\ objects(1) = 3 /\ Len(targets[w][1].labels) = 2)
                            => value.num = value.den

\* C10: an image without targets never makes forward fail (forward fails only
\* for a configuration that fails on every batch); its assignment is empty, it
\* adds nothing to loss_point and all its classification target rows are zero.
\* When no image has a target the normaliser is 1, loss_point is 0 and the
\* returned dictionary holds every requested key.
C10_ZeroTargets ==
    \A w \in Workers :
        /\ pc[w] = "error" =>
                \/ self.with_weights
                \/ HasUnregistered
                \/ "masks" \in Range(self.losses) /\ "pred_masks" \notin outputs[w].keys
        /\ matcher_calls[w] # <<>> =>
            LET l == LastMatched(w)
                empty == {b \in 1..Len(targets[w]) : Len(targets[w][b].labels) = 0}
            IN  /\ \A b \in empty : indices[w][b] = [src |-> <<>>, tgt |-> <<>>]
                /\ KeyOf("loss_point", l) \in DOMAIN losses[w] =>
                        FracEq(losses[w][KeyOf("loss_point", l)],
                               Frac(SumSeq([b \in 1..Len(targets[w]) |->
                                        IF b \in empty THEN 0 ELSE ImageL1(w, l, b)])
                                    * num_points[w].den, num_points[w].num))
                /\ KeyOf("loss_ce", l) \in DOMAIN losses[w] =>
                        \A b \in empty :
                            \A q \in 1..Len(losses[w][KeyOf("loss_ce", l)].targets[b]) :
                                losses[w][KeyOf("loss_ce", l)].targets[b][q]
                                    = [c \in 1..NumClasses |-> 0]
        /\ GlobalTargets = 0 =>
                /\ PastClamp(w) => num_points[w] = Frac(1, 1)
                /\ \A l \in 0..NumAux(w) :
                        KeyOf("loss_point", l) \in DOMAIN losses[w] =>
                            losses[w][KeyOf("loss_point", l)] = Frac(0, 1)
                /\ pc[w] = "done" => RequestedKeys \subseteq DOMAIN losses[w]

C10_Witness ==
    \E w \in Workers :
        /\ pc[w] = "done"
        /\ Len(targets[w]) = 2
        /\ GlobalTargets = 0
        /\ NumAux(w) = 2
        /\ "masks" \in Range(self.losses)
        /\ losses[w]["loss_point_1"] = Frac(0, 1)
        /\ losses[w].class_error = Frac(100, 1)

\* The invocations of the post-processor that have computed their points
PPDecoded(c) == pp_pc[c] \in {"return", "done"}

PPChecksHold(c) ==
    /\ Len(PPOutputsOf(c).pred_logits) = Len(PPTargetSizesOf(c))
    /\ Len(PPTargetSizesOf(c)[1]) = 2

\* Number of (query, class) candidates per image of invocation c
PPCandidates(c) ==
    Len(PPOutputsOf(c).pred_logits[1]) * Len(PPOutputsOf(c).pred_logits[1][1])

\* C12 as stated: with K = 100 and fewer than 100 (query, class) candidates,
\* for example Q = 5, PostProcess.forward does not fail: it returns entries for
\* the predictions there are.  (Refuted by the code: torch.topk raises.)
C12_Original ==
    \A c \in DOMAIN pp_pc :
        (PPChecksHold(c) /\ PPCandidates(c) < TopK) => pp_pc[c] # "error"

\* C13: PostProcess.forward is purely functional: it leaves the logits, points
\* and target_sizes it is handed unchanged and keeps no state, so any two
\* invocations on the same inputs, in any order and interleaved with other
\* invocations, return the same scores, labels and points (or fail alike).
C13_PurelyFunctional ==
    /\ [][pool' = pool]_vars
    /\ [](\A c, d \in DOMAIN pp_pc :
            (/\ pp_pc[c] \in {"done", "error"}
             /\ pp_pc[d] \in {"done", "error"}
             /\ pool[pp_arg[c]] = pool[pp_arg[d]])
                => /\ pp_results[c] = pp_results[d]
                   /\ pp_error[c] = pp_error[d])

C13_Witness ==
    \E c, d, e \in DOMAIN pp_pc :
        /\ pp_pc[c] = "done" /\ pp_pc[d] = "done" /\ pp_pc[e] = "done"
        /\ c # d
        /\ pp_arg[c] = pp_arg[d]
        /\ pool[pp_arg[e]] # pool[pp_arg[c]]
        /\ pp_results[c] = pp_results[d]
        /\ pp_results[e] # pp_results[c]
        /\ Len(pp_results[c]) = 2

\* C14 as stated: PostProcess.forward fails with an assertion error, before it
\* computes any score and without returning results, whenever target_sizes has
\* not as many rows as the logits have images or has not exactly 2 columns;
\* when both checks hold it returns exactly one result dict per image, in batch
\* order.  (Refuted by the code because of the failure C12 is about.)
C14_Original ==
    \A c \in DOMAIN pp_pc :
        /\ (~PPChecksHold(c) /\ pp_pc[c] # "assert") =>
                /\ pp_pc[c] = "error"
                /\ pp_error[c] = "AssertionError"
                /\ "prob" \notin DOMAIN pp_local[c]
                /\ pp_results[c] = <<>>
        /\ (PPChecksHold(c) /\ pp_pc[c] \in {"done", "error"}) =>
                /\ pp_pc[c] = "done"
                /\ Len(pp_results[c]) = Len(PPOutputsOf(c).pred_logits)
                /\ \A b \in 1..Len(pp_results[c]) :
                        /\ pp_results[c][b].scores = pp_local[c].scores[b]
                        /\ pp_results[c][b].labels = pp_local[c].labels[b]
                        /\ pp_results[c][b].points = pp_local[c].points[b]

\* The (raw, normalised) density maps among the tensors dm_decoder2.forward returned
DensityPairs ==
    IF "out_dm" \in DOMAIN m_locals /\ m_locals.out_dm # None
    THEN {<<m_locals.out_dm[3 * k - 1], m_locals.out_dm[3 * k]>> :
            k \in 1..(Len(m_locals.out_dm) \div 3)}
    ELSE {}

\* The spatial sum of image b of a normalised map whose cells share a denominator
SpatialSum(normed, b) ==
    Frac(SumSeq([k \in DOMAIN normed.values[b] |-> normed.values[b][k].num]),
         normed.values[b][1].den)

\* |1 - f| <= 1e-4
WithinTolerance(f) == 10000 * Abs(f.den - f.num) <= f.den

\* C15 as stated: for every strategy and every input each returned normalised
\* density map is non-negative everywhere and its spatial sum is 1 within
\* 1e-4, per image and per channel, also when the rectified raw map is zero
\* everywhere.  (Refuted: the sum of a zero map is 0.)
C15_Original ==
    \A p \in DensityPairs :
        \A b \in DOMAIN p[2].values :
            /\ \A k \in DOMAIN p[2].values[b] : p[2].values[b][k].num >= 0
            /\ WithinTolerance(SpatialSum(p[2], b))

\* C15, amended: each returned normalised density map is non-negative
\* everywhere and every cell is the raw cell divided by S + 1e-6, S the
\* spatial sum of the rectified raw map of the same image; so the spatial sum
\* is S / (S + 1e-6), below 1, within 1e-4 of 1 exactly when S >= 0.009999,
\* and 0 when the raw map is zero everywhere.
C15_NormalisedSum ==
    \A p \in DensityPairs :
        \A b \in DOMAIN p[2].values :
            LET S == SumSeq(p[1].values[b])
                sum == SpatialSum(p[2], b)
            IN  /\ \A k \in DOMAIN p[2].values[b] :
                    /\ p[1].values[b][k] >= 0
                    /\ p[2].values[b][k] = Frac(p[1].values[b][k], S + Epsilon)
                /\ sum = Frac(S, S + Epsilon)
                /\ WithinTolerance(sum) <=> S >= 9999 * Epsilon
                /\ S = 0 => sum.num = 0

C15_Witness ==
    /\ m_pc = "done"
    /\ detr.decoding_arch = "feature_weighting"
    /\ \E p \in DensityPairs :
        /\ p[1].values[1] = <<0, 0>>
        /\ SpatialSum(p[2], 1) = Frac(0, Epsilon)
        /\ WithinTolerance(SpatialSum(p[2], 2))

\* The density decoder has failed inside one of its statements
DecoderFailed == m_pc = "error" /\ dm_pc > 0

\* C17 as stated: for each of the three strategies, with the default widths
\* and backbone features of 256, 512, 1024 and 2048 channels, every convolution
\* stage of dm_decoder2.forward is given the number of input channels it was
\* constructed with, so the strategy runs to completion and yields a
\* 256-channel re-projected feature, a 1-channel raw density map and a
\* 1-channel normalised density map.  (Refuted by the code: layer5 is rebound.)
C17_Original ==
    (detr.dm_decoder # None /\ detr.decoding_arch \in Strategies) =>
        /\ ~DecoderFailed
        /\ ("out_dm" \in DOMAIN m_locals) =>
                \A k \in 1..(Len(m_locals.out_dm) \div 3) :
                    /\ m_locals.out_dm[3 * k - 2].channels = 256
                    /\ m_locals.out_dm[3 * k - 1].channels = 1
                    /\ m_locals.out_dm[3 * k].channels = 1

\* C18 as stated: for every combination of the options (density decoder
\* present or absent, branch_merge, branch_merge_way, transformer_flag,
\* decoding_arch), ConditionalDETR.forward invokes the transformer exactly once
\* and every value it then reads has been assigned on that path, so forward
\* always reaches the heads and returns its outputs.  (Refuted by the code.)
C18_Original ==
    /\ m_pc # "error"
    /\ transformer_calls <= 1
    /\ m_pc \in {"heads", "return", "done"} => transformer_calls = 1

\* The calls of forward that have returned: those the caller went on from, and
\* the one that has just ended
EndedCalls(w) ==
    returned[w] \o (IF pc[w] = "done"
                    THEN <<[outputs |-> outputs[w], targets |-> targets[w],
                            dict |-> losses[w]]>>
                    ELSE <<>>)

\* The keys the loop over self.losses of the final layer has stored so far
KeysSoFar(w) == KeysOfNames({self.losses[j] : j \in 1..(li[w] - 1)})

\* C16: the criterion keeps no state across calls: no step of forward, and no
\* further call, changes a field of the criterion; the dictionary the loop
\* over self.losses fills holds nothing but what this call has stored, and
\* two calls with the same outputs and targets return the same dictionary,
\* whatever was passed in between.
C16_Stateless ==
    /\ [][self' = self]_vars
    /\ [](\A w \in Workers :
            /\ pc[w] = "loss" => DOMAIN losses[w] = KeysSoFar(w)
            /\ \A i, j \in 1..Len(EndedCalls(w)) :
                    (/\ EndedCalls(w)[i].outputs = EndedCalls(w)[j].outputs
                     /\ EndedCalls(w)[i].targets = EndedCalls(w)[j].targets)
                        => EndedCalls(w)[i].dict = EndedCalls(w)[j].dict)

\* Three calls have returned: the first and the third with the same batch and
\* no auxiliary layer, the second with an auxiliary layer, and the third
\* dictionary lacks the keys of the second
C16_Witness ==
    \E w \in Workers :
        /\ Len(EndedCalls(w)) = 3
        /\ pc[w] = "done"
        /\ EndedCalls(w)[1].outputs = EndedCalls(w)[3].outputs
        /\ EndedCalls(w)[1].targets = EndedCalls(w)[3].targets
        /\ "aux_outputs" \notin EndedCalls(w)[1].outputs.keys
        /\ "aux_outputs" \in EndedCalls(w)[2].outputs.keys
        /\ "loss_ce_0" \in DOMAIN EndedCalls(w)[2].dict
        /\ "loss_ce_0" \notin DOMAIN EndedCalls(w)[3].dict
        /\ "loss_ce" \in DOMAIN EndedCalls(w)[3].dict

\* The number of decoder layers of the detector's transformer
DecLayers == detr.transformer.dec_layers

\* The predictions of the heads on decoder layer l (1 the first, DecLayers the last)
ModelLayer(l) ==
    GenLayer(m_locals.samples.seed, l, m_locals.samples.batch_size, detr.num_queries)

\* Whether prediction dict d holds the predictions of decoder layer l
IsLayer(d, l) ==
    /\ d.pred_logits = ModelLayer(l).pred_logits
    /\ d.pred_points = ModelLayer(l).pred_points

\* The auxiliary indices i for which the dictionary of worker w holds name_i
AuxIndices(w, name) == {i \in 0..(MaxAux + 1) : Suffix(name, i) \in DOMAIN losses[w]}

\* The keys of the dictionary of worker w that carry a gradient: loss_ce,
\* loss_point and their auxiliary copies
GradientKeys(w) ==
    {k \in DOMAIN losses[w] :
        \E name \in {"loss_ce", "loss_point"} :
            k = name \/ \E i \in 0..(MaxAux + 1) : k = Suffix(name, i)}

\* C19: with auxiliary losses and D decoder layers, the detector returns layer
\* D as its top-level predictions and layers 1..D-1, in order, as aux_outputs;
\* the criterion that has returned ran the matcher on the last layer and then
\* on layer i + 1 for auxiliary index i, and emitted loss_ce_i and
\* loss_point_i for exactly i in 0..D-2; and every gradient-carrying key of
\* the dictionary has a weight in the weight_dict of build, that of loss_ce_i
\* and loss_point_i being the weight of loss_ce and loss_point.
C19_LayerIndexing ==
    /\ (m_pc \in {"return", "done"} /\ detr.aux_loss) =>
            /\ IsLayer(m_locals.out, DecLayers)
            /\ "aux_outputs" \in m_locals.out.keys
            /\ Len(m_locals.out.aux_outputs) = DecLayers - 1
            /\ \A i \in 1..(DecLayers - 1) : IsLayer(m_locals.out.aux_outputs[i], i)
    /\ \A w \in Workers :
        /\ (pc[w] = "done" /\ detr.aux_loss) =>
                /\ {"loss_ce", "loss_point"} \subseteq DOMAIN losses[w]
                /\ AuxIndices(w, "loss_ce") = 0..(DecLayers - 2)
                /\ AuxIndices(w, "loss_point") = 0..(DecLayers - 2)
                /\ Len(matcher_calls[w]) = DecLayers
                /\ IsLayer(matcher_calls[w][1].arg, DecLayers)
                /\ \A i \in 0..(DecLayers - 2) : IsLayer(matcher_calls[w][i + 2].arg, i + 1)
        /\ GradientKeys(w) \subseteq DOMAIN self.weight_dict
        /\ \A i \in 0..(DecLayers - 2) :
                detr.aux_loss =>
                    /\ self.weight_dict[Suffix("loss_ce", i)] = self.weight_dict["loss_ce"]
                    /\ self.weight_dict[Suffix("loss_point", i)] =
                            self.weight_dict["loss_point"]

\* Three decoder layers and auxiliary losses, a density decoder beside the
\* detector: the criterion has returned with loss_ce_1 and loss_point_1
C19_Witness ==
    \E w \in Workers :
        /\ pc[w] = "done"
        /\ detr.aux_loss
        /\ DecLayers = 3
        /\ detr.dm_decoder # None
        /\ Len(targets[w][1].labels) > 0
        /\ {"loss_ce_1", "loss_point_1"} \subseteq DOMAIN losses[w]

\* Whether forward of worker w has called loss_labels on the final layer
LabelsCalled(w) ==
    \E j \in 1..Len(loss_calls[w]) :
        loss_calls[w][j].layer = 0 /\ loss_calls[w][j].what = "labels"

\* C20, as stated: for either setting of with_weights, the call of loss_labels
\* on outputs that hold 'pred_logits' raises nothing and puts loss_ce into
\* the dictionary.  With with_weights true, loss_ce is read at line 499
\* without having been assigned.
C20_Original ==
    \A w \in Workers :
        LabelsCalled(w) =>
            /\ error[w] # "UnboundLocalError"
            /\ "loss_ce" \in DOMAIN losses[w]

=============================================================================
